---- MODULE Spec2Model ----
(***************************************************************************)
(* Matching and distance-caching subsystem of the volunteer app backend.   *)
(*                                                                         *)
(* The store behind `supabase` is selected at import time                  *)
(* (app/supabase_client.py): the in-repo mock database, or a hosted        *)
(* Supabase (Postgres) project.  Both are modelled.  Every cache operation *)
(* is a sequence of store calls; one action of the model is one store call *)
(* or provider call, so that operations of different workers interleave    *)
(* exactly at those calls.                                                 *)
(*                                                                         *)
(* Spec      one worker, the cache operations and the requests of the      *)
(*           distance routes one after the other                           *)
(* SpecConc  two workers, the cache operations on one pair interleaved     *)
(* SpecMatch the match route, call by call, and the nearby-events function *)
(*           over the events tables of up to MaxEvents rows                *)
(* SpecBatch batch matching next to distance calculations that fill the    *)
(*           cache and to deletions of profiles                            *)
(* SpecFallback  the match route without a provider key, across restarts   *)
(*           of the server process                                         *)
(* SpecPure  the pure functions (cache key, skill match, urgency score,    *)
(*           match score), each applied once to arguments drawn at Init    *)
(* SpecNotify  two workers serving match_and_notify, the notification      *)
(*           routes, registration and the deletion of accounts             *)
(* SpecProvider  the match route request by request to the provider next   *)
(*           to the profile routes; the handler sends its request, the     *)
(*           provider's answer is not fair                                 *)
(* SpecProfile  distance calculations next to the profile routes           *)
(***************************************************************************)
EXTENDS Integers, Sequences, FiniteSets, TLC

\* ---------------------------------------------------------------- bounds
TickHours == 12
MaxCalls == 3
MaxIds == 2
MaxNotifications == 4
MaxEvents == 3
MaxLen == 2
MaxSkills == 2

\* ------------------------------------------------------ program constants
TTL_HOURS == 24

\* Time runs until one tick after an entry written at the start has expired.
Horizon == TTL_HOURS + TickHours

Procs == {1, 2}
Users == {"u1", "u2"}
GhostUser == "u0"
\* Users whose pairs the cache operations are called for directly.
DirectUsers == {"u1"}
\* The events whose pairs concurrent workers operate on.
ConcEvents == {"e1"}
\* Age thresholds cleanup_expired_cache is called with (24 is the default).
CleanupHours == {12, 24}
Events == <<"e1", "e2">>
EventIds == {Events[i] : i \in 1..Len(Events)}
\* The required skills and urgency an event row can have.
EventKinds ==
    { [required_skills |-> <<"Teaching", "Technology">>, urgency |-> "High"],
      [required_skills |-> <<"teaching", "Teaching">>, urgency |-> "medium"] }
EventId(i) == CASE i = 1 -> "e1" [] i = 2 -> "e2" [] i = 3 -> "e3" [] OTHER -> "e4"
EventLocation(i) == CASE i = 1 -> "loc1" [] i = 2 -> "loc2" [] OTHER -> "loc3"
\* The i-th row of an events table, of the given kind.
EventRow(i, kind) ==
    [id |-> EventId(i), location |-> EventLocation(i),
     required_skills |-> kind.required_skills, urgency |-> kind.urgency]
\* The events table of a hosted store: the two events of Events.
HostedEvents ==
    << EventRow(1, [required_skills |-> <<"Teaching", "Technology">>, urgency |-> "High"]),
       EventRow(2, [required_skills |-> <<"teaching", "Teaching">>, urgency |-> "medium"]) >>
\* The events the mock database starts with (e1, e2, e3 for event-001,
\* event-002, event-003), with the texts of their locations.
SAMPLE_EVENTS ==
    << [id |-> "e1", location |-> "Galveston Beach State Park, TX",
        required_skills |-> <<"Environmental Cleanup", "Physical Work">>,
        urgency |-> "High"],
       [id |-> "e2", location |-> "Houston Food Bank, 535 Portwall St, Houston, TX",
        required_skills |-> <<"Organization", "Customer Service", "Food Service">>,
        urgency |-> "Medium"],
       [id |-> "e3", location |-> "Community Center, 789 Elm St, Houston, TX",
        required_skills |-> <<"Teaching", "Technology", "Patience">>,
        urgency |-> "Low"] >>
\* The values of PYTHONHASHSEED the interpreter is started with here.
HashSeeds == {0, 146}
\* An optional value is a sequence of length 0 (Python None) or 1.
None == <<>>
Some(x) == <<x>>
NoUser == "-"

\* Results the distance provider can report for an OK element:
\* distance in metres, duration in seconds.
DistResults ==
    { [distance |-> 8000, duration |-> 600],
      [distance |-> 80467, duration |-> 4000] }

\* What one call of the provider's distance matrix can produce.
ProviderOutcomes ==
    { [kind |-> "ok", res |-> r] : r \in DistResults }
    \cup { [kind |-> k, res |-> [distance |-> 0, duration |-> 0]] :
               k \in {"not_ok", "no_rows", "exception"} }

VARIABLES
    backend,         \* "mock" | "supabase": which client `supabase` is bound to
    apiKey,          \* GOOGLE_MAPS_API_KEY: "none" | "mock_key" | "real"
    now,             \* datetime.now(), in hours
    distance_cache,  \* rows of table distance_cache (a set: the store keeps no order)
    nextId,          \* next row id the store generates
    proc,            \* per worker: the operation in progress and its locals
    calls,           \* number of calls made through the googlemaps client (history)
    history,         \* whether the workers keep their history fields
    hashSeed,        \* the seed of the interpreter's str hash (PYTHONHASHSEED)
    auth_tail,       \* "HEAD" | "theirs": the side of the last conflict of routes/auth.py deployed
    events_table,    \* rows of table events, in the order a select returns them
    notifications,   \* rows of table notifications, in insertion order
    user_profiles,   \* rows of table user_profiles, in the order a select returns them
    notif_seq        \* the id the store gives the next row of notifications

vars == <<backend, apiKey, now, distance_cache, nextId, proc, calls, history,
          hashSeed, auth_tail, events_table, notifications, user_profiles, notif_seq>>

\* What is fixed when the process starts.
settings == <<backend, apiKey, hashSeed, history, auth_tail>>

\* The tables the cache operations do not write, with the id sequence of
\* the notifications.
match_tables == <<events_table, notifications, user_profiles, notif_seq>>

\* ------------------------------------------------------------ the profile store
\* A column that holds NULL: the key is in the row and its value is None.
Null == "<null>"

\* The user_profiles rows of a hosted store: u1 has a complete address, u2
\* lacks the city, u0 has no profile row at all.
HostedProfiles ==
    << [user_id |-> "u1", address1 |-> "123 Main Street", address2 |-> "Apt 4B",
        city |-> "Houston", state |-> "TX", zip_code |-> "77001",
        skills |-> <<"Teaching", "First Aid">>, role |-> "volunteer"],
       [user_id |-> "u2", address1 |-> "456 Oak Avenue", address2 |-> "",
        city |-> "", state |-> "TX", zip_code |-> "78701",
        skills |-> <<>>, role |-> "volunteer"] >>

\* The user_profiles rows the mock database starts with (u1, u2 for
\* volunteer-001, volunteer-002).
SAMPLE_PROFILES ==
    << [user_id |-> "u1", address1 |-> "123 Main Street", address2 |-> "Apt 4B",
        city |-> "Houston", state |-> "TX", zip_code |-> "77001",
        skills |-> <<"Environmental Cleanup", "Event Planning", "Teaching">>,
        role |-> "volunteer"],
       [user_id |-> "u2", address1 |-> "456 Oak Avenue", address2 |-> "",
        city |-> "Austin", state |-> "TX", zip_code |-> "78701",
        skills |-> <<"Customer Service", "Organization", "Food Service">>,
        role |-> "volunteer"] >>

\* The notifications rows the mock database starts with (ids 1, 2, 3 for
\* notif-001, notif-002, notif-003): two for one pair, a match and a
\* reminder, and one for another pair.
SAMPLE_NOTIFICATIONS ==
    << [id |-> 1, user_id |-> "u1", event_id |-> "e1",
        message |-> "You have been matched to", type |-> "match", is_read |-> FALSE],
       [id |-> 2, user_id |-> "u2", event_id |-> "e2",
        message |-> "You have been matched to", type |-> "match", is_read |-> FALSE],
       [id |-> 3, user_id |-> "u1", event_id |-> "e1",
        message |-> "Reminder", type |-> "reminder", is_read |-> TRUE] >>

\* What the tables hold when the server starts: the mock database is built
\* from its samples when the module is imported (initialize_mock_data); the
\* hosted store has its profiles and events and, here, no notification yet.
InitialTables ==
    /\ user_profiles = IF backend = "mock" THEN SAMPLE_PROFILES ELSE HostedProfiles
    /\ notifications = IF backend = "mock" THEN SAMPLE_NOTIFICATIONS ELSE <<>>
    /\ notif_seq = IF backend = "mock" THEN Len(SAMPLE_NOTIFICATIONS) + 1 ELSE 1

\* The events a server starts with.
InitialEvents == IF backend = "mock" THEN SAMPLE_EVENTS ELSE HostedEvents

\* str.strip() on the texts of the profile columns that occur.
StripText(s) ==
    CASE s = " 123 Main Street " -> "123 Main Street"
      [] s = " 9 Elm Road " -> "9 Elm Road"
      [] s = "  " -> ""
      [] s = " " -> ""
      [] OTHER -> s

\* get_user_full_address: the parts of the address, which the code joins with
\* ", " (city and state are one part "city, state", which joins to the same
\* text).  A column holding None has no strip(): the AttributeError is caught
\* and the address is None.
get_user_full_address(profile) ==
    IF Null \in {profile.address1, profile.address2, profile.city, profile.state,
                 profile.zip_code}
    THEN None
    ELSE LET address1 == StripText(profile.address1)
             address2 == StripText(profile.address2)
             city == StripText(profile.city)
             state == StripText(profile.state)
             zip_code == StripText(profile.zip_code)
         IN IF address1 = "" \/ city = "" \/ state = ""
            THEN None
            ELSE Some(<<address1>>
                      \o (IF address2 # "" THEN <<address2>> ELSE <<>>)
                      \o <<city, state>>
                      \o (IF zip_code # "" THEN <<zip_code>> ELSE <<>>))

\* ------------------------------------------------------------ store calls
\* `DistanceCalculator.client` exists only when a key is configured and the
\* client library accepts it.
HasClient == apiKey = "real"

\* MockSupabaseTable._storage_map has no "distance_cache" entry: every query on
\* that table is built over a fresh empty dict.
MockStorageMap == {"user_credentials", "user_profiles", "events", "notifications", "volunteer_history"}

Storage(table, rows) ==
    IF backend = "mock" /\ table \notin MockStorageMap THEN {} ELSE rows

\* select("*").eq("user_id", u).eq("event_id", e)
MatchesPair(r, u, e) == r.user_id = u /\ r.event_id = e

SelectPair(rows, u, e) == {r \in rows : MatchesPair(r, u, e)}

\* delete().eq("user_id", u).eq("event_id", e)
DeletePair(rows, u, e) == {r \in rows : ~MatchesPair(r, u, e)}

\* delete().eq("id", i)
DeleteId(rows, i) == {r \in rows : r.id # i}

\* Mutant: the conflict is on user_id alone, as in the mock's upsert.
UpsertPairByUser(rows, data, id) ==
    LET old == {r \in rows : r.user_id = data.user_id} IN
    IF old = {}
    THEN rows \cup {[data EXCEPT !.id = id]}
    ELSE (rows \ old) \cup {[data EXCEPT !.id = r.id] : r \in old}

\* Postgres INSERT ... ON CONFLICT (user_id, event_id) DO UPDATE: the row of the
\* pair is replaced and keeps its id; otherwise a row is added.
UpsertPair(rows, data, id) ==
    LET old == SelectPair(rows, data.user_id, data.event_id) IN
    IF old = {}
    THEN rows \cup {[data EXCEPT !.id = id]}
    ELSE (rows \ old) \cup {[data EXCEPT !.id = r.id] : r \in old}

\* ------------------------------------------------------------ DistanceCache
\* Mutant: the freshness window is taken twice as long.
IsFreshTwice(row, t) == t - row.calculated_at < 2 * TTL_HOURS

\* datetime.now() - calculated_at < timedelta(hours=24)
IsFresh(row, t) == t - row.calculated_at < TTL_HOURS

cache_data(u, e, origin_address, res, t) ==
    [id |-> 0, user_id |-> u, event_id |-> e, origin_address |-> origin_address,
     distance_value |-> res.distance, duration_value |-> res.duration,
     calculated_at |-> t]

\* generate_id: `uuid` is never imported by mock_database.py, so the call
\* raises NameError, which MockSupabaseQuery.execute turns into a response
\* with data=None.
GenerateIdRaises == TRUE

\* MockSupabaseQuery._execute_insert over a storage.
MockExecuteInsert(storage, data, id) ==
    IF GenerateIdRaises
    THEN [ok |-> FALSE, rows |-> storage]
    ELSE [ok |-> TRUE, rows |-> storage \cup {[data EXCEPT !.id = id]}]

\* MockSupabaseQuery._execute_upsert with "user_id" in on_conflict: the first
\* record of the same user_id (the one of least id here) is updated, whatever
\* its other columns; otherwise the data is inserted.
MockExecuteUpsert(storage, data, id) ==
    LET same == {r \in storage : r.user_id = data.user_id} IN
    IF same # {}
    THEN LET first == CHOOSE r \in same : \A q \in same : r.id <= q.id IN
         [ok |-> TRUE, rows |-> (storage \ {first}) \cup {[data EXCEPT !.id = first.id]}]
    ELSE MockExecuteInsert(storage, data, id)

\* A write of a store call lands in the table, unless the table is one the
\* mock does not keep.
Written(table, rows, new) ==
    IF backend = "mock" /\ table \notin MockStorageMap THEN rows ELSE new

\* table("distance_cache").upsert(data, on_conflict=["user_id", "event_id"])
\* .execute(): ok is FALSE when the remote store raises.
StoreUpsert(rows, data, id, ok) ==
    IF backend = "mock"
    THEN LET m == MockExecuteUpsert(Storage("distance_cache", rows), data, id) IN
         [ok |-> m.ok, fault |-> IF m.ok THEN "none" ELSE "nodata",
          rows |-> Written("distance_cache", rows, m.rows)]
    ELSE IF ok THEN [ok |-> TRUE, fault |-> "none", rows |-> UpsertPair(rows, data, id)]
    ELSE [ok |-> FALSE, fault |-> "raise", rows |-> rows]

\* Mutant: the row is inserted, whatever the table holds for the pair.
save_distance_calculation_insert(rows, u, e, origin_address, res, t, id, ok) ==
    IF backend = "supabase" /\ ok
    THEN [ok |-> TRUE, fault |-> "none",
          rows |-> rows \cup {[cache_data(u, e, origin_address, res, t) EXCEPT !.id = id]}]
    ELSE StoreUpsert(rows, cache_data(u, e, origin_address, res, t), id, ok)

\* save_distance_calculation: the upsert of cache_data; its return value is
\* .ok (response.data is truthy and nothing raised).
save_distance_calculation(rows, u, e, origin_address, res, t, id, ok) ==
    StoreUpsert(rows, cache_data(u, e, origin_address, res, t), id, ok)

\* Mutant: a non-OK element is answered with a fallback distance, as the
\* match route does.
calculate_distance_fallback(outcome) ==
    IF outcome.kind \in {"ok", "not_ok"} THEN Some(outcome.res) ELSE None

\* DistanceCalculator.calculate_distance: a result only for an OK element of
\* a response that has rows; None when the call raises.
calculate_distance_result(outcome) ==
    IF outcome.kind = "ok" THEN Some(outcome.res) ELSE None

\* Mutant: a hit is reported as freshly calculated.
hit_result_uncached(row) ==
    [cached |-> FALSE, distance_value |-> row.distance_value,
     duration_value |-> row.duration_value, calculated_at |-> row.calculated_at]

\* The dict calculate_and_cache_distance returns on a cache hit.
hit_result(row) ==
    [cached |-> TRUE, distance_value |-> row.distance_value,
     duration_value |-> row.duration_value, calculated_at |-> row.calculated_at]

\* Mutant: a failed cache write makes the call fail.
miss_result_strict(res, saved_ok, t) ==
    IF saved_ok
    THEN Some([cached |-> FALSE, distance_value |-> res.distance,
               duration_value |-> res.duration, calculated_at |-> t])
    ELSE None

\* The dict calculate_and_cache_distance returns after a resolution; the
\* outcome of the cache write (saved_ok) is not looked at.
miss_result(res, saved_ok, t) ==
    Some([cached |-> FALSE, distance_value |-> res.distance,
          duration_value |-> res.duration, calculated_at |-> t])

\* ------------------------------------------------------------ the cache key
\* str.lower() on the letters and on the skill and urgency names that occur.
Lower(s) ==
    CASE s = "Teaching" -> "teaching"
      [] s = "Technology" -> "technology"
      [] s = "First Aid" -> "first aid"
      [] s = "Environmental Cleanup" -> "environmental cleanup"
      [] s = "Event Planning" -> "event planning"
      [] s = "Physical Work" -> "physical work"
      [] s = "Organization" -> "organization"
      [] s = "Customer Service" -> "customer service"
      [] s = "Food Service" -> "food service"
      [] s = "Patience" -> "patience"
      [] s = "High" -> "high"
      [] s = "Medium" -> "medium"
      [] s = "Low" -> "low"
      [] s = "HIGH" -> "high"
      [] s = "MEDIUM" -> "medium"
      [] s = "LOW" -> "low"
      [] s = "A" -> "a"
      [] OTHER -> s

\* An address is a sequence of characters: letters in both cases, a blank
\* and the separator of the key.
Chars == {"a", "A", "b", " ", "|"}

Addresses == UNION { [1..n -> Chars] : n \in 0..MaxLen }

\* str.lower() of a text.
str_lower(text) == [i \in 1..Len(text) |-> Lower(text[i])]

RECURSIVE lstrip(_)
lstrip(text) ==
    IF text # <<>> /\ Head(text) = " " THEN lstrip(Tail(text)) ELSE text

RECURSIVE rstrip(_)
rstrip(text) ==
    IF text # <<>> /\ text[Len(text)] = " "
    THEN rstrip(SubSeq(text, 1, Len(text) - 1)) ELSE text

\* str.strip(): the text without its leading and trailing blanks.
strip(text) == rstrip(lstrip(text))

CharCode(c) ==
    CASE c = "a" -> 1 [] c = "A" -> 2 [] c = "b" -> 3 [] c = " " -> 4 [] OTHER -> 5

\* hashlib.md5(text.encode()).hexdigest(), taken to be free of collisions on
\* the texts of the model: the digest is the number of the text.
RECURSIVE md5(_)
md5(text) ==
    IF text = <<>> THEN 0
    ELSE 6 * md5(SubSeq(text, 1, Len(text) - 1)) + CharCode(text[Len(text)])

\* Mutant: the addresses are lowercased but not stripped.
generate_cache_key_unstripped(origin_address, destination_address) ==
    md5(str_lower(origin_address) \o <<"|">> \o str_lower(destination_address))

\* DistanceCache.generate_cache_key
generate_cache_key(origin_address, destination_address) ==
    md5(strip(str_lower(origin_address)) \o <<"|">>
        \o strip(str_lower(destination_address)))

\* ------------------------------------------------------------ routes/match.py
\* Distances of the match route are in tenths of a mile, weights in
\* hundredths, scores in hundredths of a point.

SetOf(seq) == {seq[i] : i \in 1..Len(seq)}

Abs(x) == IF x < 0 THEN -x ELSE x

Max(a, b) == IF a >= b THEN a ELSE b

\* origin + destination, with origin = f"{address1}, {city}, {state}": the
\* number of the text among those that occur, made of the texts the columns
\* address1, city and state of a profile row and the location of an event
\* row can hold.  The f-string renders a column holding None as the text
\* "None".  Texts that differ in any of the four parts have different
\* numbers.
TextCode(origin, destination) ==
    LET Address1Texts ==
            <<"123 Main Street", "456 Oak Avenue", "9 Elm Road", " 9 Elm Road ", Null>>
        CityTexts == <<"Houston", "", "Austin", "  ", Null>>
        StateTexts == <<"TX", Null>>
        LocationTexts ==
            <<"loc1", "loc2", "loc3", "Galveston Beach State Park, TX",
              "Houston Food Bank, 535 Portwall St, Houston, TX",
              "Community Center, 789 Elm St, Houston, TX">>
        IndexOf(texts, t) == CHOOSE i \in 1..Len(texts) : texts[i] = t
    IN (((IndexOf(Address1Texts, origin[1]) - 1) * Len(CityTexts)
           + (IndexOf(CityTexts, origin[2]) - 1)) * Len(StateTexts)
           + (IndexOf(StateTexts, origin[3]) - 1)) * Len(LocationTexts)
       + (IndexOf(LocationTexts, destination) - 1)

\* hash(text) of CPython 3.11 started with PYTHONHASHSEED=0, for the texts in
\* the order of TextCode: the sign of the hash and abs(hash) % 1000 (so that
\* abs(.) % 25 is that of the hash).
StrHashes0 ==
    << -88, -3, 175, 856, -264, -826, -92, -834, -916, -174, -290, -346,
       -536, -394, -565, -632, -375, 116, -891, -893, 914, -808, 806, -824,
       35, -573, 733, 697, -835, -64, -927, 413, -564, 715, 501, 401,
       758, -514, -935, -890, 112, 487, 986, 9, 402, 401, -297, -515,
       -170, 719, -276, 592, -697, -448, -140, -391, 115, -935, -579, -893,
       -935, -309, -798, -708, 867, -347, -259, 513, -110, 983, 581, 682,
       -556, -609, -829, -374, -839, -801, 773, 751, 977, -916, -412, -986,
       -797, -163, -343, -889, 634, 34, -326, 725, -66, 109, 639, -358,
       -146, 476, 77, -152, 842, -368, -212, -704, 39, 694, 725, -817,
       -207, -236, 113, 730, 888, -807, -373, -67, -970, 910, -694, -447,
       281, -980, -795, -703, 609, -977, -840, 91, -633, 431, 617, -109,
       848, 967, 269, 527, 313, -88, 60, -258, -438, 235, 291, -959,
       82, -601, 63, 914, 297, 689, -335, -670, 863, -532, 176, 484,
       235, -897, -664, -27, -450, -676, -718, -340, 39, 627, -916, -797,
       139, 724, -813, -938, 389, 818, -884, -74, -616, 824, -464, 271,
       544, -68, -795, -790, -373, -247, 678, 432, 683, 717, 600, -867,
       -137, 0, -921, 397, -76, 673, -189, -471, 937, 991, -27, -51,
       628, -574, 664, -870, -50, 471, -487, -50, -525, 940, 671, -834,
       -709, 900, 941, -327, 684, 971, -736, 721, -714, 209, 437, -357,
       677, 533, -280, 491, -195, -674, 524, 693, 655, -4, 854, 911,
       50, -130, -893, -434, -176, 10, 540, -791, 854, 904, 5, -709,
       -529, 783, 755, 207, 317, -528, -267, -300, 264, -98, 864, 961,
       -880, 340, 275, 532, 280, -366, 578, -47, 10, -77, -559, 376,
       692, 663, -456, -633, -615, 470, -910, -68, -480, 578, -222, -577,
       -565, -984, 909, -639, 838, -467, 916, -794, -568, -115, 750, 276 >>

\* The same under PYTHONHASHSEED=146.
StrHashes146 ==
    << 573, -835, -6, -420, -711, 626, 483, -823, 329, 808, -556, -418,
       -712, -137, -213, -858, -338, 337, 655, -387, -968, 259, 852, -5,
       -972, 376, -713, -267, -450, 324, 99, -618, -773, -929, -437, 372,
       -665, 998, -505, -274, 731, -299, 192, 759, -180, -753, 701, 603,
       -452, -188, 749, 693, 201, 952, -29, -745, -499, -38, -304, 881,
       690, -435, -741, 196, 460, -276, -504, 471, -189, 897, -180, 734,
       847, 447, -362, 1, 820, -282, -575, 589, 903, -344, 7, 2,
       723, 826, -837, -925, 842, -681, -351, 609, 360, -247, -378, -960,
       -268, -597, -892, -496, -650, 893, 382, 194, -673, 604, 978, -533,
       118, 989, -515, 311, 659, -748, 956, 996, -545, -572, -439, 411,
       -741, 913, 311, 75, 358, 571, -422, 848, -312, 829, 704, -472,
       -176, 376, 56, 496, 17, 538, 944, -745, -589, -795, 220, 878,
       -69, -826, -479, -181, -600, -254, 308, 362, -203, 274, -406, -124,
       594, 496, -912, -428, -565, -732, -30, 197, 153, 962, 363, -210,
       -804, 262, -527, 137, -98, -543, -823, 330, 87, -88, 175, 860,
       757, 276, 515, 646, 292, 667, -547, -310, -683, 743, 362, -428,
       -909, 527, 980, 70, 270, -826, -947, 606, -212, 622, 639, -974,
       6, -911, -575, 991, 746, 370, 813, -864, -608, 362, -493, -372,
       291, 222, 572, -948, -716, -43, 278, 213, 347, 300, 524, 250,
       -713, 905, -129, -589, 532, 905, 939, -852, 214, -108, -677, 580,
       689, -166, 982, 969, -410, -459, 658, 722, 556, 516, -359, -462,
       645, 332, -907, 628, -149, -989, 603, 636, -903, -656, 753, 307,
       247, 676, 494, 91, 364, -447, 574, -760, -594, -321, -856, -63,
       -696, -997, 704, 173, -493, 558, 979, 148, -889, -476, 982, -165,
       60, 290, 46, 216, 754, 470, 445, -562, 399, -930, 621, 33 >>

\* hash(origin + destination): a signed value that depends on the seed of the
\* interpreter.
PyHash(seed, origin, destination) ==
    (IF seed = 0 THEN StrHashes0 ELSE StrHashes146)[TextCode(origin, destination) + 1]

\* The ways one GET of the distance matrix fails for the match route: a
\* status that is not OK, requests.get raising (network error, timeout), a
\* response that does not parse (response.json() or float() raising).
ProviderFailures == {"not_ok", "network_error", "unparsable"}

\* What one GET of the distance matrix can produce for the match route:
\* an OK element with its distance text parsed, or a failure.
MatchOutcomes ==
    { [kind |-> "ok", miles |-> m] : m \in {500, 501} }
    \cup { [kind |-> k, miles |-> 0] : k \in ProviderFailures }

NoOutcome == [kind |-> "none", miles |-> 0]

\* 15.0, the distance the match route takes when the provider fails.
FallbackMiles == 150

\* Whether calculate_distance of the match route goes to the provider.
UsesProvider == apiKey \notin {"none", "mock_key"}

\* Mutant: a provider failure yields 999 miles.
calculate_distance_999(origin, destination, outcome) ==
    IF ~UsesProvider
    THEN 10 * ((Abs(PyHash(hashSeed, origin, destination)) % 25) + 1)
    ELSE IF outcome.kind = "ok" THEN outcome.miles ELSE 9990

\* routes/match.py calculate_distance.
calculate_distance(origin, destination, outcome) ==
    IF ~UsesProvider
    THEN 10 * ((Abs(PyHash(hashSeed, origin, destination)) % 25) + 1)
    ELSE IF outcome.kind = "ok" THEN outcome.miles ELSE FallbackMiles

\* Mutant: the matching skills are divided by the length of the list of
\* required skills.
calculate_skill_match_listed(user_skills, event_skills) ==
    IF event_skills = <<>> THEN [num |-> 0, den |-> 1]
    ELSE LET user_skills_set == {Lower(x) : x \in SetOf(user_skills)}
             event_skills_set == {Lower(x) : x \in SetOf(event_skills)}
         IN [num |-> 100 * Cardinality(user_skills_set \cap event_skills_set),
             den |-> Len(event_skills)]

\* calculate_skill_match: the percentage num/den.
calculate_skill_match(user_skills, event_skills) ==
    IF event_skills = <<>> THEN [num |-> 0, den |-> 1]
    ELSE LET user_skills_set == {Lower(x) : x \in SetOf(user_skills)}
             event_skills_set == {Lower(x) : x \in SetOf(event_skills)}
         IN [num |-> 100 * Cardinality(user_skills_set \cap event_skills_set),
             den |-> Cardinality(event_skills_set)]

\* calculate_urgency_score, in tenths.
calculate_urgency_score(urgency) ==
    CASE Lower(urgency) = "high" -> 10
      [] Lower(urgency) = "medium" -> 6
      [] Lower(urgency) = "low" -> 3
      [] OTHER -> 0

\* ------------------------------------------------ the floats of the score
\* The score is computed in IEEE 754 doubles (Python float): every division,
\* product and sum is the exact result rounded to 53 significant bits, a half
\* to even.  A double is [s, m, e], the value (-1)^s * m * 2^e; its
\* significand m is a natural number in limbs of 14 bits, the lowest first
\* and the highest not 0, so that 0 is <<>>.
SignificandBits == 53
Limb == 2 ^ 14

\* The number of bits of n.
RECURSIVE Bits(_)
Bits(n) == IF n = 0 THEN 0 ELSE 1 + Bits(n \div 2)

LimbBits == Bits(Limb) - 1

RECURSIVE Trim(_)
Trim(a) == IF a = <<>> \/ a[Len(a)] # 0 THEN a ELSE Trim(SubSeq(a, 1, Len(a) - 1))

RECURSIVE BigOfInt(_)
BigOfInt(n) == IF n = 0 THEN <<>> ELSE <<n % Limb>> \o BigOfInt(n \div Limb)

RECURSIVE IntOfBig(_)
IntOfBig(a) == IF a = <<>> THEN 0 ELSE a[1] + Limb * IntOfBig(Tail(a))

RECURSIVE BigAdd(_, _, _)
BigAdd(a, b, carry) ==
    IF a = <<>> /\ b = <<>> THEN (IF carry = 0 THEN <<>> ELSE <<carry>>)
    ELSE LET x == (IF a = <<>> THEN 0 ELSE a[1]) + (IF b = <<>> THEN 0 ELSE b[1]) + carry
         IN <<x % Limb>> \o BigAdd(IF a = <<>> THEN a ELSE Tail(a),
                                   IF b = <<>> THEN b ELSE Tail(b), x \div Limb)

\* a - b - borrow for a >= b + borrow, the high zero limbs still on it.
RECURSIVE BigSubRaw(_, _, _)
BigSubRaw(a, b, borrow) ==
    IF a = <<>> THEN <<>>
    ELSE LET x == a[1] - (IF b = <<>> THEN 0 ELSE b[1]) - borrow
         IN <<x % Limb>> \o BigSubRaw(Tail(a), IF b = <<>> THEN b ELSE Tail(b),
                                      IF x < 0 THEN 1 ELSE 0)

BigSub(a, b) == Trim(BigSubRaw(a, b, 0))

\* The sign of a - b.
RECURSIVE BigCmp(_, _)
BigCmp(a, b) ==
    IF Len(a) # Len(b) THEN (IF Len(a) > Len(b) THEN 1 ELSE -1)
    ELSE IF a = <<>> THEN 0
    ELSE IF a[Len(a)] # b[Len(b)] THEN (IF a[Len(a)] > b[Len(b)] THEN 1 ELSE -1)
    ELSE BigCmp(Trim(SubSeq(a, 1, Len(a) - 1)), Trim(SubSeq(b, 1, Len(b) - 1)))

\* a * k + carry for 0 <= k <= Limb.
RECURSIVE BigMulSmall(_, _, _)
BigMulSmall(a, k, carry) ==
    IF a = <<>> THEN BigOfInt(carry)
    ELSE LET x == a[1] * k + carry
         IN <<x % Limb>> \o BigMulSmall(Tail(a), k, x \div Limb)

RECURSIVE BigMul(_, _)
BigMul(a, b) ==
    IF a = <<>> \/ b = <<>> THEN <<>>
    ELSE LET rest == BigMul(a, Tail(b))
         IN BigAdd(Trim(BigMulSmall(a, b[1], 0)),
                   IF rest = <<>> THEN rest ELSE <<0>> \o rest, 0)

\* Quotient (with its high zero limbs) and remainder of a by 0 < d <= Limb.
RECURSIVE BigDivSmall(_, _)
BigDivSmall(a, d) ==
    IF a = <<>> THEN [q |-> <<>>, r |-> 0]
    ELSE LET high == BigDivSmall(Tail(a), d)
             x == high.r * Limb + a[1]
         IN [q |-> <<x \div d>> \o high.q, r |-> x % d]

\* a * 2^n and the whole part of a / 2^n.
ShiftLeft(a, n) ==
    IF a = <<>> THEN a
    ELSE [i \in 1..(n \div LimbBits) |-> 0] \o BigMulSmall(a, 2 ^ (n % LimbBits), 0)

ShiftRight(a, n) ==
    IF n \div LimbBits >= Len(a) THEN <<>>
    ELSE Trim(BigDivSmall(SubSeq(a, n \div LimbBits + 1, Len(a)), 2 ^ (n % LimbBits)).q)

\* The number of bits of a.
BitLength(a) == IF a = <<>> THEN 0 ELSE LimbBits * (Len(a) - 1) + Bits(a[Len(a)])

\* q rounded to the nearest, a half to even: rest is what was cut off below
\* q, half its half, and inexact says that still more was lost below rest.
RoundHalfEven(q, rest, half, inexact) ==
    LET c == BigCmp(rest, half) IN
    IF c > 0 \/ (c = 0 /\ (inexact \/ (q # <<>> /\ q[1] % 2 = 1)))
    THEN BigAdd(q, <<>>, 1) ELSE q

FloatZero == [s |-> 0, m |-> <<>>, e |-> 0]

\* The double nearest to (-1)^s * n * 2^e (plus a little, if inexact): n is
\* kept when it has 53 bits or less, cut to 53 bits and rounded otherwise.
Float(s, n, e, inexact) ==
    IF n = <<>> THEN FloatZero
    ELSE IF BitLength(n) <= SignificandBits THEN [s |-> s, m |-> n, e |-> e]
    ELSE LET cut == BitLength(n) - SignificandBits
             q == ShiftRight(n, cut)
         IN [s |-> s, e |-> e + cut,
             m |-> RoundHalfEven(q, BigSub(n, ShiftLeft(q, cut)),
                                 ShiftLeft(<<1>>, cut - 1), inexact)]

\* float(n) of an integer below 2^31, and -x.
FloatOfInt(n) == Float(IF n < 0 THEN 1 ELSE 0, BigOfInt(Abs(n)), 0, FALSE)

FloatNeg(x) == IF x.m = <<>> THEN x ELSE [x EXCEPT !.s = 1 - x.s]

\* x / d for an integer 0 < d <= Limb: the quotient is taken to 70 bits
\* below x's last, which leaves more than 53 bits to round.
FloatDiv(x, d) ==
    IF x.m = <<>> THEN FloatZero
    ELSE LET dm == BigDivSmall(ShiftLeft(x.m, 5 * LimbBits), d)
         IN Float(x.s, Trim(dm.q), x.e - 5 * LimbBits, dm.r # 0)

\* The double a decimal literal or an int / int yields: num / den.
FloatOfRatio(num, den) == FloatDiv(FloatOfInt(num), den)

FloatMul(x, y) ==
    IF x.m = <<>> \/ y.m = <<>> THEN FloatZero
    ELSE Float((x.s + y.s) % 2, BigMul(x.m, y.m), x.e + y.e, FALSE)

FloatAdd(x, y) ==
    IF x.m = <<>> THEN y
    ELSE IF y.m = <<>> THEN x
    ELSE LET e == IF x.e < y.e THEN x.e ELSE y.e
             a == ShiftLeft(x.m, x.e - e)
             b == ShiftLeft(y.m, y.e - e)
             c == BigCmp(a, b)
         IN IF x.s = y.s THEN Float(x.s, BigAdd(a, b, 0), e, FALSE)
            ELSE IF c = 0 THEN FloatZero
            ELSE IF c > 0 THEN Float(x.s, BigSub(a, b), e, FALSE)
            ELSE Float(y.s, BigSub(b, a), e, FALSE)

\* round(x, 2), in hundredths: the hundredth nearest to the value the double
\* has, a half to even.
round2(x) ==
    IF x.m = <<>> THEN 0
    ELSE LET n == BigMulSmall(x.m, 100, 0)
             q == IF x.e >= 0 THEN ShiftLeft(n, x.e) ELSE ShiftRight(n, -x.e)
             r == IF x.e >= 0 THEN q
                  ELSE RoundHalfEven(q, BigSub(n, ShiftLeft(q, -x.e)),
                                     ShiftLeft(<<1>>, -x.e - 1), FALSE)
         IN IF x.s = 1 THEN -IntOfBig(r) ELSE IntOfBig(r)

\* The float of a skill match num/den: what calculate_skill_match returns
\* for num/100 matching skills out of den, (num/100 / den) * 100, and the
\* float of the fraction for a percentage given as such.
SkillMatchFloat(skill_match) ==
    IF skill_match.num % 100 = 0
    THEN FloatMul(FloatOfRatio(skill_match.num \div 100, skill_match.den), FloatOfInt(100))
    ELSE FloatOfRatio(skill_match.num, skill_match.den)

\* total_score * 100 of calculate_match_score (lines 88-101) as the floats
\* compute it: skill_match a fraction, distance in tenths of a mile, the
\* weights in hundredths.
total_score_100(skill_match, distance, urgency, skill_weight, distance_weight, urgency_weight) ==
    LET skill_score == FloatDiv(SkillMatchFloat(skill_match), 100)
        closeness == FloatAdd(FloatOfInt(1),
                              FloatNeg(FloatDiv(FloatOfRatio(distance, 10), 50)))
        distance_score == IF closeness.s = 1 THEN FloatZero ELSE closeness
        urgency_score == FloatOfRatio(calculate_urgency_score(urgency), 10)
        total_score ==
            FloatAdd(FloatAdd(FloatMul(skill_score, FloatOfRatio(skill_weight, 100)),
                              FloatMul(distance_score, FloatOfRatio(distance_weight, 100))),
                     FloatMul(urgency_score, FloatOfRatio(urgency_weight, 100)))
    IN FloatMul(total_score, FloatOfInt(100))

\* The score as a fraction of hundredths, num over den = 5 * skill_match.den.
ScoreFraction(skill_match, distance, urgency, skill_weight, distance_weight, urgency_weight) ==
    [num |-> 5 * skill_match.num * skill_weight
             + skill_match.den * Max(0, 500 - distance) * distance_weight
             + 50 * skill_match.den * calculate_urgency_score(urgency) * urgency_weight,
     den |-> 5 * skill_match.den]

\* Mutant: the score is capped at 100.
calculate_match_score_clamped(skill_match, distance, urgency, skill_weight, distance_weight, urgency_weight) ==
    LET x == ScoreFraction(skill_match, distance, urgency,
                           skill_weight, distance_weight, urgency_weight)
        q == x.num \div x.den
        r == x.num % x.den
        score == IF 2 * r > x.den THEN q + 1
                 ELSE IF 2 * r < x.den THEN q
                 ELSE round2(total_score_100(skill_match, distance, urgency,
                                             skill_weight, distance_weight, urgency_weight))
    IN IF score > 10000 THEN 10000 ELSE score

\* calculate_match_score: round(total_score * 100, 2), in hundredths.  The
\* float the code rounds is the fraction up to the rounding of a dozen float
\* operations, less than a millionth of a hundredth for the 32-bit integers
\* of the model, and a fraction off a half is at least 1 / (2 * den) away
\* from it: off a half the hundredth nearest to the fraction is the one
\* nearest to the float.  On a half the float decides, which may lie on the
\* half or to either side of it.
calculate_match_score(skill_match, distance, urgency, skill_weight, distance_weight, urgency_weight) ==
    LET x == ScoreFraction(skill_match, distance, urgency,
                           skill_weight, distance_weight, urgency_weight)
        q == x.num \div x.den
        r == x.num % x.den
    IN IF 2 * r > x.den THEN q + 1
       ELSE IF 2 * r < x.den THEN q
       ELSE round2(total_score_100(skill_match, distance, urgency,
                                   skill_weight, distance_weight, urgency_weight))

\* Mutant: an element goes before the elements of equal key.
RECURSIVE insort_unstable(_, _)
insort_unstable(sorted, x) ==
    IF sorted = <<>> THEN <<x>>
    ELSE IF x.key <= Head(sorted).key THEN <<x>> \o sorted
    ELSE <<Head(sorted)>> \o insort_unstable(Tail(sorted), x)

\* x is put into the ascending list behind every element whose key is not
\* greater than its own.
RECURSIVE insort(_, _)
insort(sorted, x) ==
    IF sorted = <<>> THEN <<x>>
    ELSE IF x.key < Head(sorted).key THEN <<x>> \o sorted
    ELSE <<Head(sorted)>> \o insort(Tail(sorted), x)

\* list.sort(key=...) on records [key, item]: ascending and stable.  With
\* reverse=True the order is descending and equal keys still keep their
\* order, which is the ascending stable order of the negated keys.
RECURSIVE list_sort(_)
list_sort(pairs) ==
    IF pairs = <<>> THEN <<>>
    ELSE insort(list_sort(SubSeq(pairs, 1, Len(pairs) - 1)), pairs[Len(pairs)])

Items(pairs) == [i \in 1..Len(pairs) |-> pairs[i].item]

\* Mutant: an event at exactly max_distance is skipped too.
TooFarOrEqual(distance, max_distance) == distance >= max_distance

\* if distance > match_request.max_distance: continue
TooFar(distance, max_distance) == distance > max_distance

user_location(user_data) == <<user_data.address1, user_data.city, user_data.state>>

\* The reasons of one match (the texts without their formatted numbers).
match_reasons(skill_match, distance, urgency) ==
    (IF skill_match.num > 50 * skill_match.den THEN <<"Strong skill match">> ELSE <<>>)
    \o (IF distance < 100 THEN <<"Close location">> ELSE <<>>)
    \o (IF urgency = "high" THEN <<"High priority event">> ELSE <<>>)

\* One turn of the loop of match_volunteer_to_events (lines 207-247) for an
\* event whose distance is known: nothing when it is too far, else its
\* MatchResult.
MatchResult(event, distance, req, user_skills) ==
    IF TooFar(distance, req.max_distance) THEN <<>>
    ELSE LET skill_match == calculate_skill_match(user_skills, event.required_skills) IN
         << [event_id |-> event.id,
             match_score |-> calculate_match_score(skill_match, distance, event.urgency,
                                 req.skill_weight, req.distance_weight, req.urgency_weight),
             skill_match_percentage |-> skill_match,
             distance_miles |-> distance,
             urgency_level |-> event.urgency,
             reasons |-> match_reasons(skill_match, distance, event.urgency)] >>

\* The distances calculate_distance yields for the events, in order.
Distances(origin, evs, outs) ==
    [i \in 1..Len(evs) |-> calculate_distance(origin, evs[i].location, outs[i])]

RECURSIVE MatchLoop(_, _, _, _)
MatchLoop(evs, dists, req, user_skills) ==
    IF evs = <<>> THEN <<>>
    ELSE MatchResult(Head(evs), Head(dists), req, user_skills)
         \o MatchLoop(Tail(evs), Tail(dists), req, user_skills)

\* MatchRequest with its defaults.
DefaultRequest(u) ==
    [user_id |-> u, max_distance |-> 500,
     urgency_weight |-> 30, skill_weight |-> 50, distance_weight |-> 20]

\* select("*").eq("user_id", u) on user_profiles
ProfileOf(u) ==
    LET Test(r) == r.user_id = u IN SelectSeq(user_profiles, Test)

\* The caller asks for themselves or is an admin (line 188).
Authorized(req, current_user) ==
    current_user.user_id = req.user_id \/ current_user.role = "admin"

\* What match_volunteer_to_events leaves when an exception ends it: every
\* HTTPException raised inside the try (the 403, the 404) is caught by
\* `except Exception` and answered as a 500 that carries its text.
match_failure(detail) ==
    [status |-> 500, detail |-> detail, body |-> <<>>, seen |-> <<>>, ncalls |-> 0]

\* match_volunteer_to_events from the profile row on (lines 196-252): the
\* response for the row user_data and the events read, with the distances
\* resolved (seen) and the number of provider requests made (ncalls).  outs:
\* what the provider answered for each event.
match_volunteer_to_events(req, user_data, events, outs) ==
    LET dists == Distances(user_location(user_data), events, outs)
        matches == MatchLoop(events, dists, req, user_data.skills)
        keyed == [i \in 1..Len(matches) |->
                     [key |-> -matches[i].match_score, item |-> matches[i]]]
    IN [status |-> 200, detail |-> "",
        body |-> Items(list_sort(keyed)),
        seen |-> [i \in 1..Len(events) |-> [id |-> events[i].id, distance |-> dists[i]]],
        ncalls |-> IF UsesProvider THEN Len(events) ELSE 0]

\* ------------------------------------------------------------ workers
\* pc: the next store or provider call of the operation in progress.
\* res: the provider's result; ret: what the operation returned.
\* History: fault, whether the operation's latest store call raised ("raise")
\* or answered without data ("nodata"); outcome, what the provider call of the
\* operation produced; prev, the run of cache writes this worker's latest
\* operations made for the pair (op, the n-th in a row, its values res, its
\* calculated_at and the fault of the write); of a match request that follows
\* an answered match request, the user and the distances (seen) of that one.
\* Of a request served: req, the request; seen, the distance resolved for
\* each event; ncalls, the provider requests made; lacking, the pairs that had
\* no live cache entry when it started.  Of get_nearby_events_for_user: limit,
\* max_distance_miles; acc, events_with_distance.  Of a match request: outs,
\* what the provider produced for each event.  Of a cleanup in progress:
\* call, the time and the threshold it was called with and the rows the table
\* held then (history).  Of a cache write to come: origin, the origin_address
\* it is called with.  Of a handler between its store calls: profile, the
\* row (or the skills) its select of user_profiles gave; evs, the rows its
\* select of events gave; snap, the rows or ids it has still to go through.
\* Of a lookup in progress (get_cached_distance, on its own or at the start
\* of calculate_and_cache_distance): called, the time it was called at; row,
\* the row its select gave.  Of a cache write in progress: stamp, the
\* calculated_at of the row it is about to write.
Idle == [pc |-> "idle", op |-> "-", user |-> NoUser, event |-> "-",
         res |-> None, ret |-> None, fault |-> "none", outcome |-> "-",
         prev |-> None, cutoff |-> 0, snap |-> <<>>, count |-> 0,
         req |-> None, seen |-> <<>>, ncalls |-> 0, lacking |-> 0,
         limit |-> 0, acc |-> <<>>, outs |-> <<>>, call |-> None, origin |-> <<>>,
         profile |-> None, evs |-> <<>>, called |-> 0, row |-> None, stamp |-> 0]

Fault(ok) == IF ok THEN "none" ELSE "raise"

\* The record of a finished operation as it is kept: without its history
\* fields when the history is not recorded.
Kept(r) ==
    IF history THEN r
    ELSE [r EXCEPT !.fault = "none", !.outcome = "-", !.prev = None]

\* The run of writes goes on when the worker turns to the same pair again:
\* save after save, get after save, calculate after calculate.
KeepsPrev(r, op, u, e) ==
    /\ r.prev # None /\ r.user = u /\ r.event = e
    /\ <<r.prev[1].op, op>> \in {<<"save", "save">>, <<"save", "get">>, <<"calc", "calc">>}

Start(p, op, pc, u, e) ==
    /\ proc[p].pc \in {"idle", "done"}
    /\ proc' = [proc EXCEPT ![p] =
                   [Idle EXCEPT !.pc = pc, !.op = op, !.user = u, !.event = e,
                                !.called = IF op \in {"get", "calc"} THEN now ELSE 0,
                                !.prev = IF KeepsPrev(proc[p], op, u, e)
                                         THEN proc[p].prev ELSE None]]

\* The store raises only when it is a remote service; the mock never does.
StoreOutcomes == IF backend = "supabase" THEN {TRUE, FALSE} ELSE {TRUE}

\* 1609.34 metres to the mile, in hundredths of a metre.
CentimetresPerMile == 160934

\* distance_data["distance_value"] <= max_distance_miles * 1609.34
WithinMiles(distance_value, miles) == distance_value * 100 <= miles * CentimetresPerMile

\* get_nearby_events_for_user: the turn of its loop (lines 283-288) once
\* calculate_and_cache_distance has returned distance_data for the event at
\* the head of the rows read; after the last event the list is sorted by
\* distance_value and returned.
NearbyTurn(r, distance_data) ==
    LET event == Head(r.snap)
        rest == Tail(r.snap)
        seen == Append(r.seen, [id |-> event.id, data |-> distance_data])
        acc == IF distance_data # None
                  /\ WithinMiles(distance_data[1].distance_value, r.limit)
               THEN Append(r.acc, [id |-> event.id,
                                   distance_value |-> distance_data[1].distance_value,
                                   cached |-> distance_data[1].cached])
               ELSE r.acc
        keyed == [i \in 1..Len(acc) |-> [key |-> acc[i].distance_value, item |-> acc[i]]]
        r1 == [r EXCEPT !.res = None, !.fault = "none", !.outcome = "-", !.prev = None,
                        !.seen = seen, !.origin = <<>>, !.row = None, !.stamp = 0]
    IN IF rest = <<>>
       THEN [r1 EXCEPT !.pc = "done", !.event = "-", !.snap = <<>>, !.acc = <<>>,
                       !.ret = Some(Items(list_sort(keyed)))]
       ELSE [r1 EXCEPT !.pc = "cc_get", !.event = rest[1].id, !.snap = rest, !.acc = acc]

\* Whether the worker is inside calculate_and_cache_distance.
IsCalc(r) == r.op \in {"calc", "nearby"}

\* The operation returns ret; inside get_nearby_events_for_user the return
\* of calculate_and_cache_distance goes on with the loop.
Done(r, ret) ==
    IF r.op = "nearby" THEN NearbyTurn(r, ret)
    ELSE Kept([r EXCEPT !.pc = "done", !.ret = ret, !.res = None, !.origin = <<>>,
                        !.called = 0, !.row = None, !.stamp = 0])

\* What a handler answers: the status of its response.
Answer(r, status) ==
    [Idle EXCEPT !.pc = "done", !.op = r.op, !.ret = Some([status |-> status]),
                 !.fault = IF status = 500 THEN "raise" ELSE "none"]

\* Operations in progress that may still call the provider / insert a row.
InFlight(ops) ==
    Cardinality({q \in Procs : proc[q].pc \notin {"idle", "done"} /\ proc[q].op \in ops})

CanCall == calls + InFlight({"calc"}) < MaxCalls
CanWrite == nextId + InFlight({"calc", "save"}) <= MaxIds

\* calculate_and_cache_distance(user_id, event_id, event_location) is called.
StartCalc(p, u, e) ==
    /\ CanCall /\ CanWrite
    /\ Start(p, "calc", "cc_get", u, e)
    /\ UNCHANGED <<settings, match_tables, now, distance_cache, nextId, calls>>

\* DistanceCache.get_cached_distance(user_id, event_id) is called.
StartGet(p, u, e) ==
    /\ Start(p, "get", "cc_get", u, e)
    /\ UNCHANGED <<settings, match_tables, now, distance_cache, nextId, calls>>

\* get_cached_distance after its select (ok = the select did not raise):
\* with rows read the first of them is cached_data (lines 36-37) and its
\* freshness is tested next; without, or when the select raised, the lookup
\* is a miss (lines 49, 51-53).
AfterLookup(r, ok, data) ==
    LET r1 == [r EXCEPT !.fault = Fault(ok)] IN
    IF ok /\ Len(data) > 0
    THEN [r1 EXCEPT !.pc = "cc_fresh", !.row = Some(data[1])]
    ELSE IF IsCalc(r) THEN [r1 EXCEPT !.pc = "cc_profile", !.called = 0]
         ELSE Done(r1, None)

\* get_cached_distance after the clock read of its freshness test (lines
\* 40-47) at time t: a fresh row is returned, an expired one is to be deleted.
AfterFreshness(r, t) ==
    LET cached_data == r.row[1]
        r1 == [r EXCEPT !.row = None, !.called = 0]
    IN IF IsFresh(cached_data, t)
       THEN Done(r1, Some(IF IsCalc(r) THEN hit_result(cached_data) ELSE cached_data))
       ELSE [r1 EXCEPT !.pc = "cc_evict"]

\* response.data of a select: the rows found, in an order the store chooses.
RECURSIVE Orders(_)
Orders(rows) ==
    IF rows = {} THEN {<<>>}
    ELSE UNION {{<<r>> \o rest : rest \in Orders(rows \ {r})} : r \in rows}

\* get_cached_distance: the select of the pair's rows (line 34).
GetStep(p) ==
    /\ proc[p].pc = "cc_get"
    /\ \E ok \in StoreOutcomes :
       \E data \in Orders(SelectPair(Storage("distance_cache", distance_cache),
                                     proc[p].user, proc[p].event)) :
         proc' = [proc EXCEPT ![p] = AfterLookup(proc[p], ok, data)]
    /\ UNCHANGED <<settings, match_tables, now, distance_cache, nextId, calls>>

\* get_cached_distance: datetime.now() of the freshness test (line 41), read
\* once the response of the select is there; the row tested is the one the
\* select gave, whatever the table holds by now.
FreshStep(p) ==
    /\ proc[p].pc = "cc_fresh"
    /\ proc' = [proc EXCEPT ![p] = AfterFreshness(proc[p], now)]
    /\ UNCHANGED <<settings, match_tables, now, distance_cache, nextId, calls>>

\* Mutant: the delete leaves the rows where they are.
DeleteCallHides(p, ok) ==
    /\ distance_cache' = distance_cache

\* delete_cached_distance: the delete of the pair's rows; True unless the
\* store raised.
DeleteCall(p, ok) ==
    /\ distance_cache' =
          IF ok THEN Written("distance_cache", distance_cache,
                             DeletePair(distance_cache, proc[p].user, proc[p].event))
          ELSE distance_cache

\* get_cached_distance found an expired row: it deletes the pair's rows and
\* reports a miss.
EvictStep(p) ==
    /\ proc[p].pc = "cc_evict"
    /\ \E ok \in StoreOutcomes :
         /\ DeleteCall(p, ok)
         /\ proc' = [proc EXCEPT ![p] =
               LET r == [@ EXCEPT !.fault = Fault(ok)] IN
               IF IsCalc(r) THEN [r EXCEPT !.pc = "cc_profile"] ELSE Done(r, None)]
    /\ UNCHANGED <<settings, match_tables, now, nextId, calls>>

\* DistanceCache.delete_cached_distance(user_id, event_id) is called.
StartDelete(p, u, e) ==
    /\ Start(p, "delete", "del", u, e)
    /\ UNCHANGED <<settings, match_tables, now, distance_cache, nextId, calls>>

DeleteStep(p) ==
    /\ proc[p].pc = "del"
    /\ \E ok \in StoreOutcomes :
         /\ DeleteCall(p, ok)
         /\ proc' = [proc EXCEPT ![p] = Done([@ EXCEPT !.fault = Fault(ok)], Some(ok))]
    /\ UNCHANGED <<settings, match_tables, now, nextId, calls>>

\* calculate_and_cache_distance after a miss: the profile and its address
\* (lines 225-236); any failure ends the call with None.
ProfileStep(p) ==
    /\ proc[p].pc = "cc_profile"
    /\ \E ok \in StoreOutcomes :
         LET rows == ProfileOf(proc[p].user) IN
         proc' = [proc EXCEPT ![p] =
            IF ~ok \/ Len(rows) = 0 \/ get_user_full_address(rows[1]) = None
            THEN Done([@ EXCEPT !.fault = Fault(ok)], None)
            ELSE [@ EXCEPT !.pc = "cc_resolve", !.fault = "none",
                           !.origin = get_user_full_address(rows[1])[1]]]
    /\ UNCHANGED <<settings, match_tables, now, distance_cache, nextId, calls>>

\* distance_calculator.calculate_distance (lines 238-243): without a client no
\* call is made; a call yields a result only for an OK element.
ResolveStep(p) ==
    /\ proc[p].pc = "cc_resolve"
    /\ IF ~HasClient
       THEN /\ proc' = [proc EXCEPT ![p] = Done([@ EXCEPT !.outcome = "no_client"], None)]
            /\ calls' = calls
       ELSE /\ calls' = calls + 1
            /\ \E o \in ProviderOutcomes :
                 LET res == calculate_distance_result(o) IN
                 proc' = [proc EXCEPT ![p] =
                    IF res = None THEN Done([@ EXCEPT !.outcome = o.kind], None)
                    ELSE [@ EXCEPT !.pc = "cc_save", !.res = res, !.outcome = o.kind]]
    /\ UNCHANGED <<settings, match_tables, now, distance_cache, nextId>>

\* save_distance_calculation, called by calculate_and_cache_distance after a
\* resolution (line 246) or directly: cache_data is built (lines 77-87), with
\* datetime.now() read for its calculated_at.
CacheDataStep(p) ==
    /\ proc[p].pc = "cc_save"
    /\ proc' = [proc EXCEPT ![p] = [@ EXCEPT !.pc = "cc_upsert", !.stamp = now]]
    /\ UNCHANGED <<settings, match_tables, now, distance_cache, nextId, calls>>

\* save_distance_calculation: the upsert of cache_data (lines 90-93) and the
\* return of True or False (lines 95-104); calculate_and_cache_distance does
\* not look at it and goes on to its return.
SaveStep(p) ==
    /\ proc[p].pc = "cc_upsert"
    /\ \E ok \in StoreOutcomes :
         LET r == proc[p]
             w == save_distance_calculation(distance_cache, r.user, r.event, r.origin,
                                            r.res[1], r.stamp, nextId, ok)
             n == IF r.prev = None THEN 1 ELSE 2
             r1 == [r EXCEPT !.fault = w.fault, !.stamp = 0,
                             !.prev = Some([op |-> r.op, res |-> r.res[1], at |-> r.stamp,
                                            n |-> n, fault |-> w.fault])]
         IN
         /\ distance_cache' = w.rows
         /\ nextId' = IF Cardinality(w.rows) > Cardinality(distance_cache)
                       THEN nextId + 1 ELSE nextId
         /\ proc' = [proc EXCEPT ![p] =
               IF IsCalc(r) THEN Kept([r1 EXCEPT !.pc = "cc_return"])
               ELSE Done(r1, Some(w.ok))]
    /\ UNCHANGED <<settings, match_tables, now, calls>>

\* calculate_and_cache_distance returns its dict after the save (lines
\* 250-257), with datetime.now() read again for calculated_at.
ReturnStep(p) ==
    /\ proc[p].pc = "cc_return"
    /\ proc' = [proc EXCEPT ![p] =
          Done(@, miss_result(@.res[1], @.fault = "none", now))]
    /\ UNCHANGED <<settings, match_tables, now, distance_cache, nextId, calls>>

\* The origin_address save_distance_calculation is called with: the address
\* of the user as the profile gives it now.
user_address(u) ==
    LET rows == ProfileOf(u) IN
    IF rows = <<>> \/ get_user_full_address(rows[1]) = None THEN <<>>
    ELSE get_user_full_address(rows[1])[1]

\* DistanceCache.save_distance_calculation(...) is called directly.
StartSave(p, u, e, origin_address, res) ==
    /\ CanWrite
    /\ proc[p].pc \in {"idle", "done"}
    /\ proc' = [proc EXCEPT ![p] =
          [Idle EXCEPT !.pc = "cc_save", !.op = "save", !.user = u, !.event = e,
                       !.res = Some(res), !.origin = origin_address,
                       !.prev = IF KeepsPrev(proc[p], "save", u, e)
                                THEN proc[p].prev ELSE None]]
    /\ UNCHANGED <<settings, match_tables, now, distance_cache, nextId, calls>>

\* DistanceCache.cleanup_expired_cache(hours) is called: the cutoff is taken
\* before the rows are read (line 174).
StartCleanup(p, hours) ==
    /\ proc[p].pc \in {"idle", "done"}
    /\ proc' = [proc EXCEPT ![p] =
          [Idle EXCEPT !.pc = "cl_scan", !.op = "cleanup", !.cutoff = now - hours,
                       !.call = IF history
                                THEN Some([at |-> now, hours |-> hours,
                                           rows |-> distance_cache])
                                ELSE None]]
    /\ UNCHANGED <<settings, match_tables, now, distance_cache, nextId, calls>>

\* cleanup_expired_cache: select("*") of the whole table; a raise ends the
\* sweep with 0.
CleanupScan(p) ==
    /\ proc[p].pc = "cl_scan"
    /\ \E ok \in StoreOutcomes :
       \E data \in Orders(Storage("distance_cache", distance_cache)) :
         proc' = [proc EXCEPT ![p] =
            IF ~ok THEN Done([@ EXCEPT !.fault = "raise", !.call = None], Some(0))
            ELSE IF data = <<>> THEN Done([@ EXCEPT !.call = None], Some(0))
            ELSE [@ EXCEPT !.pc = "cl_del", !.snap = data]]
    /\ UNCHANGED <<settings, match_tables, now, distance_cache, nextId, calls>>

\* calculated_at < cutoff_time
IsExpiredAt(entry, cutoff) == entry.calculated_at < cutoff

\* cleanup_expired_cache: one turn of the loop over the rows read (lines
\* 182-186).  An expired row is deleted by id and counted; a raise of the
\* delete ends the sweep with 0.
CleanupDel(p) ==
    /\ proc[p].pc = "cl_del"
    /\ LET r == proc[p]
           entry == Head(r.snap)
           rest == Tail(r.snap)
           Go(r1) == IF rest = <<>>
                     THEN Done([r1 EXCEPT !.snap = <<>>, !.count = 0, !.cutoff = 0,
                                          !.call = None],
                               Some(r1.count))
                     ELSE [r1 EXCEPT !.snap = rest]
       IN
       IF IsExpiredAt(entry, r.cutoff)
       THEN \E ok \in StoreOutcomes :
              IF ok
              THEN /\ distance_cache' =
                        Written("distance_cache", distance_cache,
                                DeleteId(distance_cache, entry.id))
                   /\ proc' = [proc EXCEPT ![p] = Go([r EXCEPT !.count = @ + 1])]
              ELSE /\ distance_cache' = distance_cache
                   /\ proc' = [proc EXCEPT ![p] =
                         Done([r EXCEPT !.snap = <<>>, !.count = 0, !.cutoff = 0,
                                        !.call = None, !.fault = "raise"], Some(0))]
       ELSE /\ distance_cache' = distance_cache
            /\ proc' = [proc EXCEPT ![p] = Go(r)]
    /\ UNCHANGED <<settings, match_tables, now, nextId, calls>>

\* get_nearby_events_for_user(user_id, max_distance_miles) is called.
StartNearby(p, u, miles) ==
    /\ proc[p].pc \in {"idle", "done"}
    /\ calls + Len(events_table) <= MaxCalls
    /\ proc' = [proc EXCEPT ![p] =
          [Idle EXCEPT !.pc = "nb_events", !.op = "nearby", !.user = u, !.limit = miles]]
    /\ UNCHANGED <<settings, match_tables, now, distance_cache, nextId, calls>>

\* get_nearby_events_for_user: select("*") of the events (lines 275-277); a
\* raise or an empty table ends the call with [].
NearbyEvents(p) ==
    /\ proc[p].pc = "nb_events"
    /\ \E ok \in StoreOutcomes :
         proc' = [proc EXCEPT ![p] =
            IF ~ok \/ events_table = <<>>
            THEN [@ EXCEPT !.pc = "done", !.ret = Some(<<>>), !.fault = Fault(ok)]
            ELSE [@ EXCEPT !.pc = "cc_get", !.snap = events_table,
                           !.event = events_table[1].id]]
    /\ UNCHANGED <<settings, match_tables, now, distance_cache, nextId, calls>>

\* ------------------------------------------------------------ POST /match
\* What a finished match request leaves: the response, the distances it
\* resolved, the provider requests it made and what they produced.
MatchDone(r, m, outs) ==
    [r EXCEPT !.pc = "done",
              !.ret = Some([status |-> m.status, detail |-> m.detail, body |-> m.body]),
              !.seen = m.seen, !.ncalls = m.ncalls,
              !.outs = [i \in 1..Len(outs) |-> outs[i].kind],
              !.profile = None, !.evs = <<>>, !.acc = <<>>]

\* The (volunteer, event) pairs that have no live cache entry.
PairsLacking ==
    {<<v, e>> \in (1..Len(user_profiles)) \X (1..Len(events_table)) :
        \A r \in SelectPair(Storage("distance_cache", distance_cache),
                            user_profiles[v].user_id, events_table[e].id) :
           ~IsFresh(r, now)}

\* The most notifications one batch inserts: three for each volunteer.
MaxInserts ==
    Len(user_profiles) * (IF Len(events_table) < 3 THEN Len(events_table) ELSE 3)

\* What a finished batch leaves.
BatchDone(r, status, total, message) ==
    [r EXCEPT !.pc = "done", !.user = NoUser, !.req = None, !.snap = <<>>, !.count = 0,
              !.profile = None, !.evs = <<>>, !.acc = <<>>,
              !.fault = IF status = 500 THEN "raise" ELSE "none",
              !.ret = Some([status |-> status, total |-> total, message |-> message])]

\* batch_match_volunteers turns to the volunteer at the head of snap (lines
\* 280-285): match_volunteer_to_events is called with the default request
\* and an admin caller, so its authorization check passes.
BatchMatch(r) ==
    [r EXCEPT !.pc = "m_profile", !.user = Head(r.snap),
              !.req = Some(DefaultRequest(Head(r.snap)))]

\* The loop over the volunteers goes on, or the batch returns its count
\* (line 299).
BatchNext(r) ==
    IF Tail(r.snap) = <<>>
    THEN BatchDone(r, 200, r.count, "Batch matching completed")
    ELSE BatchMatch([r EXCEPT !.snap = Tail(r.snap)])

\* The matches of the volunteer are back (lines 285-289): an HTTPException of
\* the match ends the batch with a 500; else the top three with a score above
\* 50 are to be notified (acc: their event ids).
BatchTop(r, m) ==
    LET top == SubSeq(m.body, 1, IF Len(m.body) < 3 THEN Len(m.body) ELSE 3)
        Good(x) == x.match_score > 5000
        good == SelectSeq(top, Good)
        r1 == [r EXCEPT !.ncalls = @ + m.ncalls, !.profile = None, !.evs = <<>>,
                        !.acc = [i \in 1..Len(good) |-> good[i].event_id]]
    IN IF m.status # 200 THEN BatchDone(r1, 500, 0, "")
       ELSE IF good = <<>> THEN BatchNext(r1)
       ELSE [r1 EXCEPT !.pc = "bm_insert"]

\* match_volunteer_to_events returns or raises: to its caller, which is the
\* client or the loop of batch_match_volunteers.
MatchReturn(r, m, outs) ==
    IF r.op = "batch" THEN BatchTop(r, m) ELSE MatchDone(r, m, outs)

\* POST /match is called: the authorization (lines 188-189).
MatchBegin(p, req, current_user) ==
    /\ proc[p].pc \in {"idle", "done"}
    /\ LET start == [Idle EXCEPT !.op = "match", !.user = current_user.user_id,
                                 !.req = Some(req),
                                 !.prev = IF history /\ proc[p].op = "match"
                                             /\ proc[p].ret[1].status = 200
                                          THEN Some([op |-> "match",
                                                     user_id |-> proc[p].req[1].user_id,
                                                     seen |-> proc[p].seen])
                                          ELSE None]
       IN proc' = [proc EXCEPT ![p] =
             IF Authorized(req, current_user)
             THEN [start EXCEPT !.pc = "m_profile"]
             ELSE MatchDone(start, match_failure("403: Not authorized"), <<>>)]
    /\ UNCHANGED <<settings, match_tables, now, distance_cache, nextId, calls>>

\* The select of the user's profile (lines 192-198).
MatchProfile(p) ==
    /\ proc[p].pc = "m_profile"
    /\ LET r == proc[p]
           user_profile == ProfileOf(r.req[1].user_id)
       IN \E ok \in StoreOutcomes :
            proc' = [proc EXCEPT ![p] =
               IF ~ok THEN MatchReturn(r, match_failure("store"), <<>>)
               ELSE IF user_profile = <<>>
               THEN MatchReturn(r, match_failure("404: User profile not found"), <<>>)
               ELSE [r EXCEPT !.pc = "m_events", !.profile = Some(user_profile[1])]]
    /\ UNCHANGED <<settings, match_tables, now, distance_cache, nextId, calls>>

\* The select of the events (lines 201-203).  Without a provider key
\* calculate_distance makes no request, so the loop over the events runs
\* through and the handler returns; else the first request is due.
MatchEvents(p) ==
    /\ proc[p].pc = "m_events"
    /\ LET r == proc[p]
           none == [i \in 1..Len(events_table) |-> NoOutcome]
       IN \E ok \in StoreOutcomes :
            proc' = [proc EXCEPT ![p] =
               IF ~ok THEN MatchReturn(r, match_failure("store"), <<>>)
               ELSE IF events_table = <<>> \/ ~UsesProvider
               THEN MatchReturn(r, match_volunteer_to_events(r.req[1], r.profile[1],
                                                             events_table, none), none)
               ELSE [r EXCEPT !.pc = "m_call", !.evs = events_table]]
    /\ UNCHANGED <<settings, match_tables, now, distance_cache, nextId, calls>>

\* calculate_distance sends its request for the next event:
\* requests.get(url, params=params) (line 50), with no timeout argument; the
\* handler waits for the response.  acc: what the provider produced so far.
ProviderRequest(p) ==
    /\ proc[p].pc = "m_call"
    /\ proc' = [proc EXCEPT ![p].pc = "m_wait"]
    /\ UNCHANGED <<settings, match_tables, now, distance_cache, nextId, calls>>

\* The provider answers, or the connection fails: calculate_distance returns
\* (lines 51-62) and the loop goes on with the next event, or sorts and
\* returns.
ProviderAnswer(p) ==
    /\ proc[p].pc = "m_wait"
    /\ \E outcome \in MatchOutcomes :
         LET r == proc[p]
             outs == Append(r.acc, outcome)
         IN proc' = [proc EXCEPT ![p] =
               IF Len(outs) = Len(r.evs)
               THEN MatchReturn(r, match_volunteer_to_events(r.req[1], r.profile[1],
                                                             r.evs, outs), outs)
               ELSE [r EXCEPT !.pc = "m_call", !.acc = outs]]
    /\ UNCHANGED <<settings, match_tables, now, distance_cache, nextId, calls>>

\* ------------------------------------------------------------ POST /batch-match
\* supabase.table("notifications").insert(row).execute() that does not raise:
\* the row gets its id from the store; the mock's insert fails inside
\* execute() (generate_id) and adds nothing.
InsertNotification(rows, row, id) ==
    IF backend = "mock" /\ GenerateIdRaises THEN rows
    ELSE Append(rows, [row EXCEPT !.id = id])

\* The id sequence after an insert that left the table as `rows`.
NextSeq(rows) == IF Len(rows) > Len(notifications) THEN notif_seq + 1 ELSE notif_seq

\* The row batch_match_volunteers inserts (lines 290-296).
batch_notification(user_id, event_id) ==
    [id |-> 0, user_id |-> user_id, event_id |-> event_id, message |-> "New match",
     type |-> "match", is_read |-> FALSE]

\* The rows a run that starts now can add to notifications.
CanInsert(n) ==
    Len(notifications) + (IF backend = "mock" THEN 0 ELSE n) <= MaxNotifications

\* POST /batch-match is called: the role check (lines 269-270) and the select
\* of the volunteers (lines 274-276).  snap: the user_ids still to be matched.
StartBatch(p, role) ==
    /\ proc[p].pc \in {"idle", "done"}
    /\ CanInsert(MaxInserts)
    /\ LET start == [Idle EXCEPT !.op = "batch", !.lacking = Cardinality(PairsLacking)]
           volunteers == [i \in 1..Len(user_profiles) |-> user_profiles[i].user_id]
       IN
       \E ok \in StoreOutcomes :
         proc' = [proc EXCEPT ![p] =
            IF role # "admin" THEN BatchDone(start, 403, 0, "Admin access required")
            ELSE IF ~ok THEN BatchDone(start, 500, 0, "")
            ELSE IF volunteers = <<>> THEN BatchDone(start, 200, 0, "No volunteers found")
            ELSE BatchMatch([start EXCEPT !.snap = volunteers])]
    /\ UNCHANGED <<settings, match_tables, now, distance_cache, nextId, calls>>

\* batch_match_volunteers: the insert of one notification (lines 290-297).
\* An insert that raises ends the batch with a 500; the rows inserted before
\* stay.
BatchInsert(p) ==
    /\ proc[p].pc = "bm_insert"
    /\ LET r == proc[p]
           rows == InsertNotification(notifications,
                                      batch_notification(r.user, Head(r.acc)), notif_seq)
           r1 == [r EXCEPT !.acc = Tail(r.acc), !.count = @ + 1]
       IN \E ok \in StoreOutcomes :
            /\ notifications' = IF ok THEN rows ELSE notifications
            /\ notif_seq' = IF ok THEN NextSeq(rows) ELSE notif_seq
            /\ proc' = [proc EXCEPT ![p] =
                  IF ~ok THEN BatchDone(r, 500, 0, "")
                  ELSE IF r1.acc = <<>> THEN BatchNext(r1)
                  ELSE r1]
    /\ UNCHANGED <<settings, events_table, user_profiles, now, distance_cache, nextId, calls>>

\* ------------------------------------------------------------ routes/profile.py
\* A request body of POST /profile/{user_id}: Null and None stand for a key
\* the body does not have.
NoBody ==
    [address1 |-> Null, address2 |-> Null, city |-> Null, state |-> Null,
     zip_code |-> Null, skills |-> None, role |-> Null]

\* The bodies profiles are saved with: a new address1 and nothing else; an
\* address1 with blanks around it, a city of blanks and a list of skills.
ProfileBodies ==
    { [NoBody EXCEPT !.address1 = "9 Elm Road"],
      [NoBody EXCEPT !.address1 = " 9 Elm Road ", !.city = "  ",
                     !.skills = Some(<<"Technology">>)] }

\* routes/profile.py is committed with its merge conflict: the file is
\* deployed with the one side or the other.
ConflictSides == {"HEAD", "theirs"}

\* The model pydantic builds of the body (lines 11-25), None when the body is
\* rejected (422): role defaults to "volunteer"; skills defaults to [] on the
\* one side of the conflict and is required on the other.
UserProfileWithoutID(body, side) ==
    LET role == IF body.role = Null THEN "volunteer" ELSE body.role IN
    IF body.skills # None THEN Some([body EXCEPT !.skills = @[1], !.role = role])
    ELSE IF side = "HEAD" THEN Some([body EXCEPT !.skills = <<>>, !.role = role])
    ELSE None

\* upsert(data, on_conflict=["user_id"]) with data = profile.dict(
\* exclude_none=True) plus user_id: the columns in data (skills and role
\* always, the others when they are not None) replace those of the user's
\* row; without such a row the hosted store inserts one, whose other columns
\* are NULL, and the mock's insert fails and adds nothing.
upsert_profile(rows, user_id, profile, ok) ==
    LET Set(new, old) == IF new = Null THEN old ELSE new
        Merge(row) ==
            [user_id |-> user_id,
             address1 |-> Set(profile.address1, row.address1),
             address2 |-> Set(profile.address2, row.address2),
             city |-> Set(profile.city, row.city),
             state |-> Set(profile.state, row.state),
             zip_code |-> Set(profile.zip_code, row.zip_code),
             skills |-> profile.skills, role |-> profile.role]
        Has(row) == row.user_id = user_id
    IN IF ~ok THEN rows
       ELSE IF SelectSeq(rows, Has) # <<>>
       THEN [i \in 1..Len(rows) |-> IF Has(rows[i]) THEN Merge(rows[i]) ELSE rows[i]]
       ELSE IF backend = "mock" /\ GenerateIdRaises THEN rows
       ELSE Append(rows, Merge([NoBody EXCEPT !.skills = <<>>]))

\* POST /profile/{user_id}: create_or_update_profile is one store call, the
\* upsert of the profile; no other table is touched.
create_or_update_profile(user_id, body) ==
    /\ \E side \in ConflictSides, ok \in StoreOutcomes :
         LET profile == UserProfileWithoutID(body, side) IN
         user_profiles' = IF profile = None THEN user_profiles
                          ELSE upsert_profile(user_profiles, user_id, profile[1], ok)
    /\ UNCHANGED <<settings, events_table, notifications, notif_seq, now, distance_cache,
                   nextId, proc, calls>>

\* delete().eq("user_id", user_id) on user_profiles
DeleteProfileRows(rows, user_id) ==
    LET Other(r) == r.user_id # user_id IN SelectSeq(rows, Other)

\* DELETE /profile/{user_id}: delete_profile is one store call (line 91).
delete_profile(user_id) ==
    /\ ProfileOf(user_id) # <<>>
    /\ \E ok \in StoreOutcomes :
         user_profiles' = IF ok THEN DeleteProfileRows(user_profiles, user_id)
                          ELSE user_profiles
    /\ UNCHANGED <<settings, events_table, notifications, notif_seq, now, distance_cache,
                   nextId, proc, calls>>

\* ------------------------------------------------------------ routes/distance.py
\* What client.geocode can produce for the address of the health check: a
\* list of results, an empty list, or an exception, which geocode_address
\* catches.
GeocodeOutcomes == {"found", "empty", "exception"}

\* POST /distance/calculate: calculate_distance_between_addresses asks the
\* calculator for the distance between the two addresses of the request
\* (line 64), which is one call through the client when there is one; no
\* store call and no cache entry.  Without a result the handler raises its
\* 400 inside its own try, and the except Exception of the handler answers
\* 500.
calculate_distance_between_addresses(p) ==
    /\ proc[p].pc \in {"idle", "done"}
    /\ LET start == [Idle EXCEPT !.op = "distance_calculate"] IN
       IF ~HasClient
       THEN /\ calls' = calls
            /\ proc' = [proc EXCEPT ![p] = Kept(Answer(start, 500))]
       ELSE /\ CanCall
            /\ calls' = calls + 1
            /\ \E o \in ProviderOutcomes :
                 proc' = [proc EXCEPT ![p] =
                    Kept(Answer(start, IF calculate_distance_result(o) = None
                                       THEN 500 ELSE 200))]
    /\ UNCHANGED <<settings, match_tables, now, distance_cache, nextId>>

\* GET /health/distance: distance_api_health answers "unavailable" without a
\* client; with one it geocodes "Houston, TX", one call through the client,
\* and answers "healthy" when that gave coordinates and "limited" when not.
distance_api_health(p) ==
    /\ proc[p].pc \in {"idle", "done"}
    /\ LET start == [Idle EXCEPT !.op = "distance_health"]
           Health(status) ==
               [Idle EXCEPT !.pc = "done", !.op = start.op,
                            !.ret = Some([status |-> 200, health |-> status])]
       IN IF ~HasClient
          THEN /\ calls' = calls
               /\ proc' = [proc EXCEPT ![p] = Health("unavailable")]
          ELSE /\ CanCall
               /\ calls' = calls + 1
               /\ \E g \in GeocodeOutcomes :
                    proc' = [proc EXCEPT ![p] =
                       Health(IF g = "found" THEN "healthy" ELSE "limited")]
    /\ UNCHANGED <<settings, match_tables, now, distance_cache, nextId>>

\* ------------------------------------------------------------ the server
\* The server process is stopped and started again (lifespan): the new
\* interpreter draws the seed of its str hash anew.  The tables of the mock
\* database live in the process (MOCK_PROFILES, MOCK_EVENTS,
\* MOCK_NOTIFICATIONS): the import builds them from the samples again.  The
\* hosted store keeps its rows.
Restart ==
    /\ \A p \in Procs : proc[p].pc \in {"idle", "done"}
    /\ hashSeed' \in HashSeeds
    /\ IF backend = "mock"
       THEN /\ user_profiles' = SAMPLE_PROFILES
            /\ events_table' = SAMPLE_EVENTS
            /\ notifications' = SAMPLE_NOTIFICATIONS
            /\ notif_seq' = Len(SAMPLE_NOTIFICATIONS) + 1
       ELSE UNCHANGED match_tables
    /\ UNCHANGED <<backend, apiKey, history, auth_tail, now, distance_cache, nextId, proc,
                   calls>>

\* Time passes.
Tick ==
    /\ now < Horizon
    /\ now' = now + TickHours
    /\ UNCHANGED <<settings, match_tables, distance_cache, nextId, proc, calls>>

Init ==
    /\ backend \in {"mock", "supabase"}
    /\ apiKey \in {"none", "real"}
    /\ now = 0
    /\ distance_cache = {}
    /\ nextId = 1
    /\ proc = [p \in Procs |-> Idle]
    /\ calls = 0
    /\ history = TRUE
    /\ hashSeed \in IF UsesProvider THEN {0} ELSE HashSeeds
    /\ auth_tail = "HEAD"
    /\ events_table = InitialEvents
    /\ InitialTables

\* The operations one worker can be asked for, and its steps.
Worker(p) ==
    \/ \E u \in Users \cup {GhostUser}, e \in EventIds : StartCalc(p, u, e)
    \/ \E u \in DirectUsers, e \in EventIds :
         \/ StartGet(p, u, e)
         \/ StartDelete(p, u, e)
         \/ \E res \in DistResults : StartSave(p, u, e, user_address(u), res)
    \/ GetStep(p)
    \/ FreshStep(p)
    \/ EvictStep(p)
    \/ ProfileStep(p)
    \/ ResolveStep(p)
    \/ CacheDataStep(p)
    \/ SaveStep(p)
    \/ ReturnStep(p)
    \/ DeleteStep(p)
    \/ \E h \in CleanupHours : StartCleanup(p, h)
    \/ CleanupScan(p)
    \/ CleanupDel(p)
    \/ calculate_distance_between_addresses(p)
    \/ distance_api_health(p)

\* One worker: the operations run one after the other.
Next ==
    \/ Tick
    \/ Worker(1)

Spec == Init /\ [][Next]_vars

\* Two workers (server processes on one remote store, or two requests on the
\* mock): their operations on the pairs of one user interleave at every store
\* and provider call.
ConcWorker(p) ==
    \/ \E u \in DirectUsers, e \in ConcEvents :
         \/ StartCalc(p, u, e)
         \/ StartGet(p, u, e)
         \/ StartDelete(p, u, e)
         \/ \E res \in DistResults : StartSave(p, u, e, user_address(u), res)
    \/ GetStep(p)
    \/ FreshStep(p)
    \/ EvictStep(p)
    \/ ProfileStep(p)
    \/ ResolveStep(p)
    \/ CacheDataStep(p)
    \/ SaveStep(p)
    \/ ReturnStep(p)
    \/ DeleteStep(p)
    \/ \E h \in CleanupHours : StartCleanup(p, h)
    \/ CleanupScan(p)
    \/ CleanupDel(p)

NextConc ==
    \/ Tick
    \/ \E p \in Procs : ConcWorker(p)

InitConc ==
    /\ backend \in {"mock", "supabase"}
    /\ apiKey \in {"none", "real"}
    /\ now = 0
    /\ distance_cache = {}
    /\ nextId = 1
    /\ proc = [p \in Procs |-> Idle]
    /\ calls = 0
    /\ history = FALSE
    /\ hashSeed = 0           \* read by calculate_distance of the match route only
    /\ auth_tail = "HEAD"
    /\ events_table = InitialEvents
    /\ InitialTables

SpecConc == InitConc /\ [][NextConc]_vars

\* The events tables a match request can meet on the hosted store: up to
\* MaxEvents rows.  (The rows are put there from outside this program:
\* create_event, update_event and delete_event of routes/events.py name a
\* `supabase` the module never binds, and fail before their store call.)
EventTables ==
    UNION { { [i \in 1..n |-> EventRow(i, kinds[i])] : kinds \in [1..n -> EventKinds] } :
            n \in 0..MaxEvents }

\* The match requests made: for a user with a profile or without one, within
\* 15 or 50 miles, with the default weights, with none, or with a negative
\* urgency weight next to a skill weight above 1.  MatchRequest declares its
\* weights Optional[float] and nothing more, so every such body passes the
\* validation of the request and reaches the handler.
Requests ==
    { [user_id |-> u, max_distance |-> d,
       urgency_weight |-> w[1], skill_weight |-> w[2], distance_weight |-> w[3]] :
      u \in {"u1", GhostUser}, d \in {150, 500},
      w \in {<<30, 50, 20>>, <<0, 0, 0>>, <<-10, 200, 0>>} }

\* Who makes them (verify_token).
Callers ==
    { [user_id |-> "u1", role |-> "volunteer"],
      [user_id |-> "u2", role |-> "volunteer"],
      [user_id |-> "admin", role |-> "admin"] }

NearbyMiles == {5, 50}

InitMatch ==
    /\ backend \in {"mock", "supabase"}
    /\ apiKey \in {"none", "mock_key", "real"}
    /\ now = 0
    /\ distance_cache = {}
    /\ nextId = 1
    /\ proc = [p \in Procs |-> Idle]
    /\ calls = 0
    /\ history = TRUE
    /\ hashSeed \in IF UsesProvider THEN {0} ELSE HashSeeds
    /\ auth_tail = "HEAD"
    /\ events_table \in IF backend = "mock" THEN {SAMPLE_EVENTS} ELSE EventTables
    /\ InitialTables

\* One worker serving nearby-events requests, or a match request first: the
\* match handler reads nothing an earlier request of the worker wrote.  The
\* requests are served at one instant, so no cache entry expires between them.
NextMatch ==
    \/ \E req \in Requests, current_user \in Callers :
          proc[1].pc = "idle" /\ MatchBegin(1, req, current_user)
    \/ MatchProfile(1)
    \/ MatchEvents(1)
    \/ ProviderRequest(1)
    \/ ProviderAnswer(1)
    \/ \E miles \in NearbyMiles : StartNearby(1, "u1", miles)
    \/ NearbyEvents(1)
    \/ GetStep(1)
    \/ FreshStep(1)
    \/ ProfileStep(1)
    \/ ResolveStep(1)
    \/ CacheDataStep(1)
    \/ SaveStep(1)
    \/ ReturnStep(1)

SpecMatch == InitMatch /\ [][NextMatch]_vars

\* The server without a provider key (or with "mock_key"): match requests one
\* after the other, deletes of the user's profile, and restarts of the process
\* in between.
InitFallback ==
    /\ backend \in {"mock", "supabase"}
    /\ apiKey \in {"none", "mock_key"}
    /\ now = 0
    /\ distance_cache = {}
    /\ nextId = 1
    /\ proc = [p \in Procs |-> Idle]
    /\ calls = 0
    /\ history = TRUE
    /\ hashSeed \in HashSeeds
    /\ auth_tail = "HEAD"
    /\ events_table \in IF backend = "mock" THEN {SAMPLE_EVENTS} ELSE EventTables
    /\ InitialTables

NextFallback ==
    \/ \E req \in Requests, current_user \in Callers : MatchBegin(1, req, current_user)
    \/ MatchProfile(1)
    \/ MatchEvents(1)
    \/ delete_profile("u1")
    \/ Restart

SpecFallback == InitFallback /\ [][NextFallback]_vars

\* A function of the module called on its own: the call with its arguments,
\* before it is made.
PureStart(op, args) ==
    [p \in Procs |->
        IF p = 1 THEN [Idle EXCEPT !.pc = "call", !.op = op, !.req = Some(args)]
        ELSE Idle]

\* What a call that returned, or raised, leaves.
Returned(value) == Some([raised |-> "", value |-> value])
Raised(exception) == Some([raised |-> exception, value |-> 0])

\* DistanceCache.generate_cache_key(origin_address, destination_address) is called.
KeyCall(p) ==
    /\ proc[p].pc = "call" /\ proc[p].op = "generate_cache_key"
    /\ proc' = [proc EXCEPT ![p] =
          [@ EXCEPT !.pc = "done",
                    !.ret = Returned(generate_cache_key(
                                         proc[p].req[1].origin_address,
                                         proc[p].req[1].destination_address))]]
    /\ UNCHANGED <<settings, match_tables, now, distance_cache, nextId, calls>>

\* The skill names of the lists, and the lists of up to MaxSkills names.
SkillNames == {"Teaching", "teaching", "Technology", "First Aid"}

SkillLists == UNION { [1..n -> SkillNames] : n \in 0..MaxSkills }

\* calculate_skill_match(user_skills, event_skills) is called.
SkillCall(p) ==
    /\ proc[p].pc = "call" /\ proc[p].op = "calculate_skill_match"
    /\ proc' = [proc EXCEPT ![p] =
          [@ EXCEPT !.pc = "done",
                    !.ret = Returned(calculate_skill_match(proc[p].req[1].user_skills,
                                                           proc[p].req[1].event_skills))]]
    /\ UNCHANGED <<settings, match_tables, now, distance_cache, nextId, calls>>

\* What calculate_urgency_score is called with: a level in some spelling,
\* another text, the empty text, or None.
UrgencyInputs ==
    {None} \cup { Some(x) : x \in {"high", "HIGH", "High", "medium", "MEDIUM", "Medium",
                                   "low", "LOW", "Low", "unknown", ""} }

\* calculate_urgency_score(urgency) is called: None has no lower(), so
\* urgency.lower() raises AttributeError.
UrgencyCall(p) ==
    /\ proc[p].pc = "call" /\ proc[p].op = "calculate_urgency_score"
    /\ proc' = [proc EXCEPT ![p] =
          [@ EXCEPT !.pc = "done",
                    !.ret = IF proc[p].req[1].urgency = None
                            THEN Raised("AttributeError")
                            ELSE Returned(calculate_urgency_score(
                                              proc[p].req[1].urgency[1]))]]
    /\ UNCHANGED <<settings, match_tables, now, distance_cache, nextId, calls>>

\* What calculate_match_score is called with: the skill match (a percentage
\* num/den), the distance (tenths of a mile), the urgency and the weights
\* (hundredths).
ScoreSkillMatches ==
    { [num |-> 0, den |-> 1], [num |-> 20, den |-> 1], [num |-> 50, den |-> 1],
      [num |-> 100, den |-> 1], [num |-> 100, den |-> 3], [num |-> 300, den |-> 8] }

ScoreDistances == {-50, 0, 50, 450, 500, 600}

ScoreUrgencies == {"high", "low", "unknown"}

ScoreWeights == {-10, 0, 7, 20, 30, 50, 200}

\* calculate_match_score(skill_match, distance, urgency, skill_weight,
\* distance_weight, urgency_weight) is called.
ScoreCall(p) ==
    /\ proc[p].pc = "call" /\ proc[p].op = "calculate_match_score"
    /\ proc' = [proc EXCEPT ![p] =
          [@ EXCEPT !.pc = "done",
                    !.ret = LET a == proc[p].req[1] IN
                            Returned(calculate_match_score(a.skill_match, a.distance,
                                         a.urgency, a.skill_weight, a.distance_weight,
                                         a.urgency_weight))]]
    /\ UNCHANGED <<settings, match_tables, now, distance_cache, nextId, calls>>

\* The functions called on their own, each on one choice of arguments.
InitPure ==
    /\ backend = "mock"
    /\ apiKey = "none"
    /\ now = 0
    /\ distance_cache = {}
    /\ nextId = 1
    /\ calls = 0
    /\ history = TRUE
    /\ hashSeed = 0           \* read by calculate_distance of the match route only
    /\ auth_tail = "HEAD"
    /\ events_table = InitialEvents
    /\ InitialTables
    /\ \/ \E a \in Addresses, b \in Addresses :
            proc = PureStart("generate_cache_key",
                             [origin_address |-> a, destination_address |-> b])
       \/ \E us \in SkillLists, es \in SkillLists :
            proc = PureStart("calculate_skill_match",
                             [user_skills |-> us, event_skills |-> es])
       \/ \E u \in UrgencyInputs :
            proc = PureStart("calculate_urgency_score", [urgency |-> u])
       \/ \E sm \in ScoreSkillMatches, d \in ScoreDistances, u \in ScoreUrgencies,
             sw \in ScoreWeights, dw \in ScoreWeights, uw \in ScoreWeights :
            proc = PureStart("calculate_match_score",
                             [skill_match |-> sm, distance |-> d, urgency |-> u,
                              skill_weight |-> sw, distance_weight |-> dw,
                              urgency_weight |-> uw])

NextPure ==
    \/ KeyCall(1)
    \/ SkillCall(1)
    \/ UrgencyCall(1)
    \/ ScoreCall(1)

SpecPure == InitPure /\ [][NextPure]_vars

\* One worker serving distance calculations for one pair and batch runs, and
\* deletes of profiles in between its store and provider calls.
NextBatch ==
    \/ Tick
    \/ \E u \in DirectUsers, e \in ConcEvents : StartCalc(1, u, e)
    \/ GetStep(1)
    \/ FreshStep(1)
    \/ EvictStep(1)
    \/ ProfileStep(1)
    \/ ResolveStep(1)
    \/ CacheDataStep(1)
    \/ SaveStep(1)
    \/ ReturnStep(1)
    \/ \E role \in {"admin", "volunteer"} : StartBatch(1, role)
    \/ MatchProfile(1)
    \/ MatchEvents(1)
    \/ ProviderRequest(1)
    \/ ProviderAnswer(1)
    \/ BatchInsert(1)
    \/ \E u \in Users : delete_profile(u)

SpecBatch == Init /\ [][NextBatch]_vars

\* ------------------------------------------------------------ match_and_notify
\* fetch_user_skills after its select: the set of the skills of the row read;
\* the empty set when the user has no profile or the select raises (ok is
\* FALSE).
fetch_user_skills(user_id, ok) ==
    IF ~ok \/ ProfileOf(user_id) = <<>> THEN {}
    ELSE SetOf(ProfileOf(user_id)[1].skills)

\* fetch_all_events: the rows of events; none when the select raises.
fetch_all_events(ok) == IF ok THEN events_table ELSE <<>>

\* The events of all_events that the loop of match_and_notify takes as
\* matched: those sharing a skill with the user, compared as they are spelled.
matched_events(user_skills, all_events) ==
    LET Shares(event) == user_skills \cap SetOf(event.required_skills) # {} IN
    SelectSeq(all_events, Shares)

\* The row match_and_notify inserts (lines 148-153); it names no type.
notification_row(user_id, event) ==
    [id |-> 0, user_id |-> user_id, event_id |-> event.id,
     message |-> "You've been matched with", type |-> Null, is_read |-> FALSE]

\* select("id").eq("user_id", u).eq("event_id", e) on notifications
existing_notif(user_id, event_id) ==
    LET Test(r) == r.user_id = user_id /\ r.event_id = event_id IN
    SelectSeq(notifications, Test)

\* The rows an operation in progress can still add to notifications.
Pending(r) ==
    IF r.pc \in {"idle", "done"} THEN 0
    ELSE CASE r.op = "notify" ->
                 IF r.pc = "mn_events" THEN Len(events_table) ELSE Len(r.snap)
           [] r.op = "batch" -> MaxInserts
           [] OTHER -> 0

\* An operation that can add n rows may start: the ids given out stay within
\* MaxNotifications.  On the mock no insert lands.
MayInsert(n) ==
    \/ backend = "mock"
    \/ (notif_seq - 1) + Pending(proc[1]) + Pending(proc[2]) + n <= MaxNotifications

\* GET /match-and-notify/{user_id} is called: fetch_user_skills (line 128).
\* profile: the skills read.
StartNotify(p, user_id) ==
    /\ proc[p].pc \in {"idle", "done"}
    /\ MayInsert(Len(events_table))
    /\ \E ok \in StoreOutcomes :
         proc' = [proc EXCEPT ![p] =
            [Idle EXCEPT !.op = "notify", !.user = user_id, !.pc = "mn_events",
                         !.profile = Some([skills |-> fetch_user_skills(user_id, ok)])]]
    /\ UNCHANGED <<settings, match_tables, now, distance_cache, nextId, calls>>

\* fetch_all_events (line 129) and the loop up to its first select.  snap:
\* the matched events the loop has not reached yet.
NotifyEvents(p) ==
    /\ proc[p].pc = "mn_events"
    /\ \E ok \in StoreOutcomes :
         LET r == proc[p]
             matched == matched_events(r.profile[1].skills, fetch_all_events(ok))
         IN proc' = [proc EXCEPT ![p] =
               IF matched = <<>>
               THEN [r EXCEPT !.pc = "done", !.profile = None,
                              !.ret = Some([status |-> 200, matched_events |-> <<>>])]
               ELSE [r EXCEPT !.pc = "mn_select", !.profile = None, !.snap = matched]]
    /\ UNCHANGED <<settings, match_tables, now, distance_cache, nextId, calls>>

\* The loop of match_and_notify goes on to the next matched event, or the
\* handler returns the matched events (line 155).
NotifyNext(r) ==
    IF Tail(r.snap) = <<>>
    THEN [r EXCEPT !.pc = "done", !.snap = <<>>, !.acc = <<>>,
                   !.ret = Some([status |-> 200, matched_events |-> r.acc])]
    ELSE [r EXCEPT !.pc = "mn_select", !.snap = Tail(r.snap)]

\* An exception inside the try of match_and_notify (lines 157-158).
NotifyFails(r) ==
    [r EXCEPT !.pc = "done", !.snap = <<>>, !.acc = <<>>, !.fault = "raise",
              !.ret = Some([status |-> 500, matched_events |-> <<>>])]

\* The select of the existing notifications of the pair (lines 141-145).
NotifySelect(p) ==
    /\ proc[p].pc = "mn_select"
    /\ LET r == proc[p]
           event == Head(r.snap)
           r1 == [r EXCEPT !.acc = Append(@, event.id)]
       IN \E ok \in StoreOutcomes :
            proc' = [proc EXCEPT ![p] =
               IF ~ok THEN NotifyFails(r1)
               ELSE IF existing_notif(r.user, event.id) # <<>> THEN NotifyNext(r1)
               ELSE [r1 EXCEPT !.pc = "mn_insert"]]
    /\ UNCHANGED <<settings, match_tables, now, distance_cache, nextId, calls>>

\* The insert of the notification (lines 147-153).
NotifyInsert(p) ==
    /\ proc[p].pc = "mn_insert"
    /\ LET r == proc[p]
           rows == InsertNotification(notifications,
                                      notification_row(r.user, Head(r.snap)), notif_seq)
       IN \E ok \in StoreOutcomes :
            /\ notifications' = IF ok THEN rows ELSE notifications
            /\ notif_seq' = IF ok THEN NextSeq(rows) ELSE notif_seq
            /\ proc' = [proc EXCEPT ![p] = IF ok THEN NotifyNext(r) ELSE NotifyFails(r)]
    /\ UNCHANGED <<settings, events_table, user_profiles, now, distance_cache, nextId, calls>>

\* ------------------------------------------------------------ routes/notifications.py
\* The row send_notification and send_bulk_notifications insert (lines
\* 91-98, 131-138).
sent_notification(user_id) ==
    [id |-> 0, user_id |-> user_id, event_id |-> "e1", message |-> "general",
     type |-> "general", is_read |-> FALSE]

\* POST /notifications is called by any signed-in user: the insert (lines
\* 91-98).  With send_email the handler goes on to read the user's email.
send_notification(p, user_id, send_email) ==
    /\ proc[p].pc \in {"idle", "done"}
    /\ MayInsert(1)
    /\ LET start == [Idle EXCEPT !.op = "send", !.user = user_id]
           rows == InsertNotification(notifications, sent_notification(user_id), notif_seq)
       IN \E ok \in StoreOutcomes :
            /\ notifications' = IF ok THEN rows ELSE notifications
            /\ notif_seq' = IF ok THEN NextSeq(rows) ELSE notif_seq
            /\ proc' = [proc EXCEPT ![p] =
                  IF ~ok THEN Answer(start, 500)
                  ELSE IF send_email THEN [start EXCEPT !.pc = "sn_email"]
                  ELSE Answer(start, 200)]
    /\ UNCHANGED <<settings, events_table, user_profiles, now, distance_cache, nextId, calls>>

\* send_notification: the select of the user's email (line 103); when it
\* raises the request is answered 500 though the row is inserted.
SendEmailLookup(p) ==
    /\ proc[p].pc = "sn_email"
    /\ \E ok \in StoreOutcomes :
         proc' = [proc EXCEPT ![p] = Answer(@, IF ok THEN 200 ELSE 500)]
    /\ UNCHANGED <<settings, match_tables, now, distance_cache, nextId, calls>>

\* insert(notifications_data) of a list of rows: the hosted store adds them
\* all; the mock's _execute_insert fails on a list and adds nothing.
RECURSIVE InsertNotifications(_, _, _)
InsertNotifications(rows, new, id) ==
    IF new = <<>> THEN rows
    ELSE InsertNotifications(InsertNotification(rows, Head(new), id), Tail(new), id + 1)

\* POST /notifications/bulk without send_email: the role check (lines
\* 122-123) and the one insert of the rows of all user_ids (line 153).
send_bulk_notifications(p, user_ids, current_user) ==
    /\ proc[p].pc \in {"idle", "done"}
    /\ MayInsert(Len(user_ids))
    /\ LET start == [Idle EXCEPT !.op = "bulk", !.user = current_user.user_id]
           new == [i \in 1..Len(user_ids) |-> sent_notification(user_ids[i])]
           rows == InsertNotifications(notifications, new, notif_seq)
       IN \E ok \in StoreOutcomes :
            LET done == ok /\ current_user.role = "admin" IN
            /\ notifications' = IF done THEN rows ELSE notifications
            /\ notif_seq' = IF done THEN notif_seq + (Len(rows) - Len(notifications))
                            ELSE notif_seq
            /\ proc' = [proc EXCEPT ![p] =
                  IF current_user.role # "admin" THEN Answer(start, 403)
                  ELSE IF ~ok THEN Answer(start, 500)
                  ELSE Answer(start, 200)]
    /\ UNCHANGED <<settings, events_table, user_profiles, now, distance_cache, nextId, calls>>

\* select("user_id").eq("id", notification_id) on notifications
notification_by_id(notification_id) ==
    LET Test(r) == r.id = notification_id IN SelectSeq(notifications, Test)

\* The ids the requests name: the id of the first row the store holds or
\* held, and one of no row.
NotificationIds == {0, 1}

\* mark_notification_as_read and delete_notification up to their write: the
\* select of the row and the check of its owner (lines 204-209, 233-238).
\* The 404 and the 403 are re-raised as they are.
OwnerCheck(p, op, next, notification_id, current_user) ==
    /\ proc[p].pc \in {"idle", "done"}
    /\ LET start == [Idle EXCEPT !.op = op, !.user = current_user.user_id,
                                 !.count = notification_id]
           notification == notification_by_id(notification_id)
       IN \E ok \in StoreOutcomes :
            proc' = [proc EXCEPT ![p] =
               IF ~ok THEN Answer(start, 500)
               ELSE IF notification = <<>> THEN Answer(start, 404)
               ELSE IF notification[1].user_id # current_user.user_id
                       /\ current_user.role # "admin"
               THEN Answer(start, 403)
               ELSE [start EXCEPT !.pc = next]]
    /\ UNCHANGED <<settings, match_tables, now, distance_cache, nextId, calls>>

\* PUT /notifications/{notification_id}/read is called.
mark_notification_as_read(p, notification_id, current_user) ==
    OwnerCheck(p, "mark_read", "nr_update", notification_id, current_user)

\* update({"is_read": True}).eq("id", notification_id) (lines 212-215).
MarkReadUpdate(p) ==
    /\ proc[p].pc = "nr_update"
    /\ \E ok \in StoreOutcomes :
         /\ notifications' =
               IF ok
               THEN [i \in 1..Len(notifications) |->
                        IF notifications[i].id = proc[p].count
                        THEN [notifications[i] EXCEPT !.is_read = TRUE]
                        ELSE notifications[i]]
               ELSE notifications
         /\ proc' = [proc EXCEPT ![p] =
               Answer(@, IF ok THEN 200 ELSE 500)]
    /\ UNCHANGED <<settings, events_table, user_profiles, notif_seq, now, distance_cache,
                   nextId, calls>>

\* DELETE /notifications/{notification_id} is called.
delete_notification(p, notification_id, current_user) ==
    OwnerCheck(p, "delete_notification", "nd_delete", notification_id, current_user)

\* delete().eq("id", notification_id) (lines 241-244).
DeleteNotificationRow(p) ==
    /\ proc[p].pc = "nd_delete"
    /\ \E ok \in StoreOutcomes :
         /\ notifications' =
               IF ok
               THEN LET Other(r) == r.id # proc[p].count IN SelectSeq(notifications, Other)
               ELSE notifications
         /\ proc' = [proc EXCEPT ![p] =
               Answer(@, IF ok THEN 200 ELSE 500)]
    /\ UNCHANGED <<settings, events_table, user_profiles, notif_seq, now, distance_cache,
                   nextId, calls>>

\* ------------------------------------------------------------ routes/auth.py
\* The id the store gives the user_credentials row of a new user.
NewUser == "u3"

\* No row and no operation refers to the id: it is new.
IsNewUser(user_id) ==
    /\ ProfileOf(user_id) = <<>>
    /\ \A i \in 1..Len(notifications) : notifications[i].user_id # user_id
    /\ \A r \in distance_cache : r.user_id # user_id
    /\ \A q \in Procs : proc[q].user # user_id

\* POST /register is called: the select of the email in user_credentials
\* (line 112), a table not kept here: it raises, finds the email registered
\* (the 400 is answered as a 500), or finds nothing.
register(p) ==
    /\ proc[p].pc \in {"idle", "done"}
    /\ IsNewUser(NewUser)
    /\ LET start == [Idle EXCEPT !.op = "register"] IN
       \E ok \in StoreOutcomes, existing \in BOOLEAN :
         proc' = [proc EXCEPT ![p] =
            IF ~ok \/ existing THEN Answer(start, 500)
            ELSE [start EXCEPT !.pc = "rg_insert"]]
    /\ UNCHANGED <<settings, match_tables, now, distance_cache, nextId, calls>>

\* What the insert into user_credentials can do on the store at hand: give
\* the row, raise, or raise the unique violation of the email column (an
\* error whose text holds "duplicate key value violates unique constraint")
\* when the email was registered after the select.  The mock never raises.
InsertOutcomes ==
    IF backend = "supabase" THEN {"row", "raise", "duplicate"} ELSE {"row"}

\* The except clause of register on the side of the conflict deployed: HEAD
\* answers 500 to every exception (lines 167-169); theirs answers 409 to one
\* whose text names the unique violation and 500 to the others (lines
\* 225-229).
RegisterFailure(side, outcome) ==
    IF side = "theirs" /\ outcome = "duplicate" THEN 409 ELSE 500

\* register: the insert into user_credentials (lines 124-137), which gives
\* the user its id; the mock's insert answers without data, which the
\* handler takes for a failure.
RegisterInsert(p) ==
    /\ proc[p].pc = "rg_insert"
    /\ \E o \in InsertOutcomes :
         proc' = [proc EXCEPT ![p] =
            IF o # "row" THEN Answer(@, RegisterFailure(auth_tail, o))
            ELSE IF backend = "mock" /\ GenerateIdRaises THEN Answer(@, 500)
            ELSE [@ EXCEPT !.pc = "rg_profile", !.user = NewUser]]
    /\ UNCHANGED <<settings, match_tables, now, distance_cache, nextId, calls>>

\* What the route answers once the handler has returned its dict: the route
\* declares response_model=Token (line 103, fields at lines 41-45).  The dict
\* of HEAD (lines 160-166) has the fields of Token and is answered 200; the
\* dict of theirs (lines 160, 220-224) has no access_token, token_type or
\* user_id, fails the validation of the response, and the request ends in
\* 500.
RegisterResponse(side) == IF side = "HEAD" THEN 200 ELSE 500

\* register: the insert of the user's first profile row, {user_id, skills:
\* []} (lines 152-156); when it raises the registration goes on, and the
\* handler returns its dict.
RegisterProfile(p) ==
    /\ proc[p].pc = "rg_profile"
    /\ \E ok \in StoreOutcomes :
         /\ user_profiles' =
               IF ok
               THEN Append(user_profiles,
                           [NoBody EXCEPT !.skills = <<>>] @@ [user_id |-> proc[p].user])
               ELSE user_profiles
         /\ proc' = [proc EXCEPT ![p] = Answer(@, RegisterResponse(auth_tail))]
    /\ UNCHANGED <<settings, events_table, notifications, notif_seq, now, distance_cache,
                   nextId, calls>>

\* DELETE /delete_account/{user_id} is called; the handler is on the theirs
\* side of the last conflict of routes/auth.py only (lines 266-302), HEAD has
\* no such route.  The delete of the user's volunteer_history rows (line
\* 274), a table not kept here.
delete_user_account(p, user_id) ==
    /\ auth_tail = "theirs"
    /\ proc[p].pc \in {"idle", "done"}
    /\ LET start == [Idle EXCEPT !.op = "delete_account", !.user = user_id] IN
       \E ok \in StoreOutcomes :
         proc' = [proc EXCEPT ![p] =
            IF ok THEN [start EXCEPT !.pc = "da_notifications"] ELSE Answer(start, 500)]
    /\ UNCHANGED <<settings, match_tables, now, distance_cache, nextId, calls>>

\* delete_user_account: the delete of the user's notifications (line 278).
DeleteAccountNotifications(p) ==
    /\ proc[p].pc = "da_notifications"
    /\ \E ok \in StoreOutcomes :
         /\ notifications' =
               IF ok
               THEN LET Other(r) == r.user_id # proc[p].user IN
                    SelectSeq(notifications, Other)
               ELSE notifications
         /\ proc' = [proc EXCEPT ![p] =
               IF ok THEN [@ EXCEPT !.pc = "da_profile"] ELSE Answer(@, 500)]
    /\ UNCHANGED <<settings, events_table, user_profiles, notif_seq, now, distance_cache,
                   nextId, calls>>

\* delete_user_account: the delete of the user's profile (line 282).
DeleteAccountProfile(p) ==
    /\ proc[p].pc = "da_profile"
    /\ \E ok \in StoreOutcomes :
         /\ user_profiles' = IF ok THEN DeleteProfileRows(user_profiles, proc[p].user)
                             ELSE user_profiles
         /\ proc' = [proc EXCEPT ![p] =
               IF ok THEN [@ EXCEPT !.pc = "da_credentials"] ELSE Answer(@, 500)]
    /\ UNCHANGED <<settings, events_table, notifications, notif_seq, now, distance_cache,
                   nextId, calls>>

\* delete_user_account: the delete of the user_credentials row (lines
\* 289-292); 404 when the store deleted none.
DeleteAccountCredentials(p) ==
    /\ proc[p].pc = "da_credentials"
    /\ \E ok \in StoreOutcomes, found \in BOOLEAN :
         proc' = [proc EXCEPT ![p] =
            Answer(@, IF ~ok THEN 500 ELSE IF found THEN 200 ELSE 404)]
    /\ UNCHANGED <<settings, match_tables, now, distance_cache, nextId, calls>>

\* ------------------------------------------------------------ the notifying server
\* The requests that write notifications or remove their users, and their
\* steps.
NotificationsWorker(p) ==
    \/ \E send_email \in BOOLEAN : send_notification(p, "u1", send_email)
    \/ SendEmailLookup(p)
    \/ \E current_user \in Callers : send_bulk_notifications(p, <<"u1", "u2">>, current_user)
    \/ \E id \in NotificationIds, current_user \in Callers :
          \/ mark_notification_as_read(p, id, current_user)
          \/ delete_notification(p, id, current_user)
    \/ MarkReadUpdate(p)
    \/ DeleteNotificationRow(p)
    \/ register(p)
    \/ RegisterInsert(p)
    \/ RegisterProfile(p)
    \/ \E user_id \in {"u1", NewUser} : delete_user_account(p, user_id)
    \/ DeleteAccountNotifications(p)
    \/ DeleteAccountProfile(p)
    \/ DeleteAccountCredentials(p)

\* The calls of match_and_notify and their steps.
NotifyWorker(p) ==
    \/ \E user_id \in Users : StartNotify(p, user_id)
    \/ NotifyEvents(p)
    \/ NotifySelect(p)
    \/ NotifyInsert(p)

\* Two server processes on one store: both serve match_and_notify calls, one
\* of them the other requests too; they interleave at every store call.
NextNotify ==
    \/ \E p \in Procs : NotifyWorker(p)
    \/ NotificationsWorker(2)

InitNotify ==
    /\ backend \in {"mock", "supabase"}
    /\ apiKey = "none"
    /\ now = 0
    /\ distance_cache = {}
    /\ nextId = 1
    /\ proc = [p \in Procs |-> Idle]
    /\ calls = 0
    /\ history = TRUE
    /\ hashSeed = 0           \* read by calculate_distance of the match route only
    /\ auth_tail \in ConflictSides
    /\ events_table = InitialEvents
    /\ InitialTables

SpecNotify == InitNotify /\ [][NextNotify]_vars

\* ------------------------------------------------------------ the provider request
InitProvider ==
    /\ backend \in {"mock", "supabase"}
    /\ apiKey \in {"none", "real"}
    /\ now = 0
    /\ distance_cache = {}
    /\ nextId = 1
    /\ proc = [p \in Procs |-> Idle]
    /\ calls = 0
    /\ history = FALSE
    /\ hashSeed \in IF UsesProvider THEN {0} ELSE HashSeeds
    /\ auth_tail = "HEAD"
    /\ events_table = InitialEvents
    /\ InitialTables

\* One worker serving match requests, and saves and deletes of the profile
\* in between its store and provider calls.
NextProvider ==
    \/ \E req \in Requests, current_user \in Callers : MatchBegin(1, req, current_user)
    \/ MatchProfile(1)
    \/ MatchEvents(1)
    \/ ProviderRequest(1)
    \/ ProviderAnswer(1)
    \/ \E body \in ProfileBodies : create_or_update_profile("u1", body)
    \/ delete_profile("u1")

\* The handler sends a request that is due; whether and when the provider
\* answers is up to the provider, and nothing in the code ends the wait for
\* it.
SpecProvider ==
    InitProvider /\ [][NextProvider]_vars /\ WF_vars(ProviderRequest(1))

\* ------------------------------------------------------------ the profile server
\* One worker serving distance calculations for one pair, and saves and
\* deletes of the same user's profile in between.
NextProfile ==
    \/ \E u \in DirectUsers, e \in ConcEvents : StartCalc(1, u, e)
    \/ GetStep(1)
    \/ FreshStep(1)
    \/ EvictStep(1)
    \/ ProfileStep(1)
    \/ ResolveStep(1)
    \/ CacheDataStep(1)
    \/ SaveStep(1)
    \/ ReturnStep(1)
    \/ \E u \in DirectUsers, body \in ProfileBodies : create_or_update_profile(u, body)
    \/ \E u \in DirectUsers : delete_profile(u)
    \/ Tick

SpecProfile == Init /\ [][NextProfile]_vars

\* ------------------------------------------------------------ properties
LiveRows(u, e) ==
    {r \in SelectPair(Storage("distance_cache", distance_cache), u, e) : IsFresh(r, now)}

\* C1: get_cached_distance never returns an entry whose calculated_at is more
\* than 24 hours before the time of the call, whatever the other worker does
\* in between and whether or not the row is still stored: the row a lookup
\* returns (inside calculate_and_cache_distance, the row behind the hit) is
\* at most 24 hours old on the clock of its freshness test, and that clock is
\* not behind the time of the call.
C1_NoExpiredReturned ==
    [][\A p \in Procs :
         (proc[p].pc = "cc_fresh" /\ proc[p].op \in {"get", "calc"}
          /\ proc'[p].pc = "done" /\ proc'[p].ret # None)
         => /\ now - proc'[p].ret[1].calculated_at <= TTL_HOURS
            /\ proc[p].called <= now
            /\ proc[p].called - proc'[p].ret[1].calculated_at <= TTL_HOURS]_vars

\* A lookup answered None although a row of the pair, expired, is still stored.
C1_Witness ==
    \E p \in Procs :
       /\ proc[p].pc = "done" /\ proc[p].op = "get" /\ proc[p].ret = None
       /\ \E r \in SelectPair(distance_cache, proc[p].user, proc[p].event) :
             now - r.calculated_at > TTL_HOURS

\* C4 as stated: when a live entry of the pair exists, a step of the lookup
\* of calculate_and_cache_distance takes that entry (the select reads it, the
\* freshness test returns its values with cached=True), calls the provider
\* not at all and leaves the cache store as it is.
C4_HitIsPure ==
    [][\A p \in Procs :
         (proc[p].op = "calc" /\ proc[p].pc \in {"cc_get", "cc_fresh"}
          /\ proc'[p] # proc[p]
          /\ LiveRows(proc[p].user, proc[p].event) # {})
         => /\ proc[p].pc = "cc_get"
               => /\ proc'[p].pc = "cc_fresh"
                  /\ proc'[p].row # None
                  /\ proc'[p].row[1] \in LiveRows(proc[p].user, proc[p].event)
            /\ proc[p].pc = "cc_fresh"
               => /\ proc'[p].pc = "done"
                  /\ proc'[p].ret # None
                  /\ proc'[p].ret[1].cached = TRUE
                  /\ \E r \in LiveRows(proc[p].user, proc[p].event) :
                        /\ proc'[p].ret[1].distance_value = r.distance_value
                        /\ proc'[p].ret[1].duration_value = r.duration_value
                        /\ proc'[p].ret[1].calculated_at = r.calculated_at
            /\ calls' = calls
            /\ distance_cache' = distance_cache]_vars

\* C4, amended: when the select of the lookup does not raise and a live entry
\* of the pair exists, the select reads a live entry; when the entry read is
\* live on the clock of the freshness test, calculate_and_cache_distance
\* returns that entry's values with cached=True; neither step calls the
\* provider or changes the cache store.  When the select raises, the failure
\* is swallowed and the call goes on as after a miss, live entry or not; when
\* the entry read has expired by the freshness test, the call goes on to
\* evict it.
C4_HitWhenRead ==
    [][\A p \in Procs :
         (proc[p].op = "calc" /\ proc[p].pc \in {"cc_get", "cc_fresh"}
          /\ proc'[p] # proc[p])
         => /\ (proc[p].pc = "cc_get" /\ proc'[p].fault = "none"
                /\ LiveRows(proc[p].user, proc[p].event) # {})
               => /\ proc'[p].pc = "cc_fresh"
                  /\ proc'[p].row # None
                  /\ proc'[p].row[1] \in LiveRows(proc[p].user, proc[p].event)
            /\ (proc[p].pc = "cc_get" /\ proc'[p].fault = "raise")
               => /\ proc'[p].pc = "cc_profile"
                  /\ proc'[p].ret = None
            /\ (proc[p].pc = "cc_fresh" /\ IsFresh(proc[p].row[1], now))
               => /\ proc'[p].pc = "done"
                  /\ proc'[p].ret # None
                  /\ proc'[p].ret[1].cached = TRUE
                  /\ proc'[p].ret[1].distance_value = proc[p].row[1].distance_value
                  /\ proc'[p].ret[1].duration_value = proc[p].row[1].duration_value
                  /\ proc'[p].ret[1].calculated_at = proc[p].row[1].calculated_at
            /\ (proc[p].pc = "cc_fresh" /\ ~IsFresh(proc[p].row[1], now))
               => proc'[p].pc = "cc_evict"
            /\ calls' = calls
            /\ distance_cache' = distance_cache]_vars

\* A calculate call served from the cache some time after the entry was written.
C4_Witness ==
    \E p \in Procs :
       /\ proc[p].pc = "done" /\ proc[p].op = "calc" /\ proc[p].ret # None
       /\ proc[p].ret[1].cached = TRUE
       /\ proc[p].ret[1].calculated_at < now

\* C9: if the cache write fails (the store raises or answers without data)
\* after a successful resolution, calculate_and_cache_distance still returns
\* the freshly computed distance with cached=False: whatever the write did,
\* the call goes on to its return, and the return after a failed write
\* carries the values of the resolution.
C9_WriteFailureSwallowed ==
    [][\A p \in Procs :
         (proc[p].op = "calc" /\ proc'[p] # proc[p])
         => /\ proc[p].pc = "cc_upsert"
               => (proc'[p].pc = "cc_return" /\ proc'[p].res = proc[p].res)
            /\ (proc[p].pc = "cc_return" /\ proc[p].fault # "none")
               => /\ proc'[p].pc = "done"
                  /\ proc'[p].ret # None
                  /\ proc'[p].ret[1].cached = FALSE
                  /\ proc'[p].ret[1].distance_value = proc[p].res[1].distance
                  /\ proc'[p].ret[1].duration_value = proc[p].res[1].duration]_vars

\* A calculate call whose write failed and that returned a distance.
C9_Witness ==
    \E p \in Procs :
       /\ proc[p].pc = "done" /\ proc[p].op = "calc" /\ proc[p].outcome = "ok"
       /\ proc[p].fault \in {"raise", "nodata"}
       /\ proc[p].ret # None
       /\ SelectPair(distance_cache, proc[p].user, proc[p].event) = {}

\* C10: a resolution that is not an OK element (non-OK status, no rows, a raise,
\* no client) yields no result; calculate_and_cache_distance then returns None
\* and the step leaves the cache store as it is.
C10_FailedResolution ==
    [][\A p \in Procs :
         (proc[p].pc = "cc_resolve" /\ proc'[p] # proc[p]
          /\ proc'[p].outcome # "ok")
         => /\ proc'[p].pc = "done"
            /\ proc'[p].ret = None
            /\ distance_cache' = distance_cache]_vars

\* A calculate call ended by a non-OK element while the table holds rows.
C10_Witness ==
    \E p \in Procs :
       /\ proc[p].pc = "done" /\ proc[p].op = "calc" /\ proc[p].ret = None
       /\ proc[p].outcome = "not_ok"
       /\ distance_cache # {}

\* C3: calling save_distance_calculation twice for the same pair with different
\* results leaves exactly one entry for the pair, and a following
\* get_cached_distance returns the values and calculated_at of the second
\* write.  (Calls on which the remote store raises are left aside.)
C3_SecondWriteWins ==
    [][\A p \in Procs :
         /\ (proc[p].pc = "cc_upsert" /\ proc[p].op = "save" /\ proc'[p].pc = "done"
             /\ proc[p].prev # None
             /\ proc[p].prev[1].res # proc'[p].prev[1].res
             /\ proc[p].prev[1].fault # "raise" /\ proc'[p].fault # "raise")
            => \E r \in distance_cache' :
                  /\ SelectPair(distance_cache', proc[p].user, proc[p].event) = {r}
                  /\ r.distance_value = proc[p].res[1].distance
                  /\ r.duration_value = proc[p].res[1].duration
                  /\ r.calculated_at = proc[p].stamp
         /\ (proc[p].pc = "cc_get" /\ proc[p].op = "get" /\ proc'[p] # proc[p]
             /\ proc[p].prev # None
             /\ proc[p].prev[1].op = "save" /\ proc[p].prev[1].n = 2
             /\ proc[p].prev[1].fault # "raise" /\ proc'[p].fault # "raise")
            => /\ proc'[p].pc = "cc_fresh"
               /\ proc'[p].row # None
               /\ proc'[p].row[1].distance_value = proc[p].prev[1].res.distance
               /\ proc'[p].row[1].duration_value = proc[p].prev[1].res.duration
               /\ proc'[p].row[1].calculated_at = proc[p].prev[1].at
         /\ (proc[p].pc = "cc_fresh" /\ proc[p].op = "get"
             /\ proc[p].prev # None
             /\ proc[p].prev[1].op = "save" /\ proc[p].prev[1].n = 2
             /\ proc[p].prev[1].fault # "raise"
             /\ now - proc[p].prev[1].at < TTL_HOURS)
            => /\ proc'[p].pc = "done"
               /\ proc'[p].ret # None
               /\ proc'[p].ret[1].distance_value = proc[p].prev[1].res.distance
               /\ proc'[p].ret[1].duration_value = proc[p].prev[1].res.duration
               /\ proc'[p].ret[1].calculated_at = proc[p].prev[1].at]_vars

\* C5: after calculate_and_cache_distance missed the cache and the provider
\* resolved, a further call for the same pair less than 24 hours later, with
\* no other operation in between, is served from the cache with the same
\* values and calls the provider no more.  (Calls on which the remote store
\* raises are left aside.)
C5_ServedFromCache ==
    [][\A p \in Procs :
         (proc[p].pc \in {"cc_get", "cc_fresh"} /\ proc[p].op = "calc"
          /\ proc'[p] # proc[p]
          /\ proc[p].prev # None
          /\ proc[p].prev[1].op = "calc"
          /\ proc[p].prev[1].fault # "raise" /\ proc'[p].fault # "raise"
          /\ now - proc[p].prev[1].at < TTL_HOURS)
         => /\ proc[p].pc = "cc_get"
               => /\ proc'[p].pc = "cc_fresh"
                  /\ proc'[p].row # None
                  /\ proc'[p].row[1].distance_value = proc[p].prev[1].res.distance
                  /\ proc'[p].row[1].duration_value = proc[p].prev[1].res.duration
            /\ proc[p].pc = "cc_fresh"
               => /\ proc'[p].pc = "done"
                  /\ proc'[p].ret # None
                  /\ proc'[p].ret[1].cached = TRUE
                  /\ proc'[p].ret[1].distance_value = proc[p].prev[1].res.distance
                  /\ proc'[p].ret[1].duration_value = proc[p].prev[1].res.duration
            /\ calls' = calls]_vars

\* C2: whatever the operations and their interleaving, the distance_cache
\* table holds at most one entry per (user_id, event_id).
C2_OneEntryPerPair ==
    \A u \in Users, e \in EventIds :
       Cardinality(SelectPair(distance_cache, u, e)) <= 1

\* Two workers have both saved the same pair and the store took both writes.
C2_Witness ==
    /\ \A p \in Procs :
          /\ proc[p].pc = "done" /\ proc[p].op = "save"
          /\ proc[p].ret = Some(TRUE)
          /\ proc[p].user = proc[1].user /\ proc[p].event = proc[1].event
    /\ Cardinality(SelectPair(distance_cache, proc[1].user, proc[1].event)) = 1

\* The place of an event in the events table.
Pos(id) == CHOOSE k \in 1..Len(events_table) : events_table[k].id = id

\* The places of a list at which the event appears.
Places(list, id) == {j \in 1..Len(list) : list[j].event_id = id}

\* C7: a match request answers with exactly the events whose resolved
\* distance is not greater than its max_distance: an event farther away is
\* not in the list, an event at most that far is in it (once, with its
\* distance).  get_nearby_events_for_user answers likewise with exactly the
\* events whose distance was resolved to at most max_distance_miles * 1609.34
\* metres.
C7_HardDistanceFilter ==
    \A p \in Procs :
       /\ (proc[p].pc = "done" /\ proc[p].op = "match" /\ proc[p].ret[1].status = 200)
          => LET body == proc[p].ret[1].body
                 seen == proc[p].seen
                 max_distance == proc[p].req[1].max_distance
             IN /\ Len(seen) = Len(events_table)
                /\ \A i \in 1..Len(seen) :
                      /\ seen[i].id = events_table[i].id
                      /\ seen[i].distance > max_distance => Places(body, seen[i].id) = {}
                      /\ seen[i].distance <= max_distance
                         => /\ Cardinality(Places(body, seen[i].id)) = 1
                            /\ \A j \in Places(body, seen[i].id) :
                                  body[j].distance_miles = seen[i].distance
       /\ (proc[p].pc = "done" /\ proc[p].op = "nearby" /\ proc[p].fault # "raise")
          => LET list == proc[p].ret[1]
                 seen == proc[p].seen
                 In(i) == {j \in 1..Len(list) : list[j].id = seen[i].id}
             IN /\ Len(seen) = Len(events_table)
                /\ \A i \in 1..Len(seen) :
                      /\ seen[i].id = events_table[i].id
                      /\ IF seen[i].data # None
                            /\ seen[i].data[1].distance_value * 100
                                  <= proc[p].limit * CentimetresPerMile
                         THEN /\ Cardinality(In(i)) = 1
                              /\ \A j \in In(i) :
                                    list[j].distance_value = seen[i].data[1].distance_value
                         ELSE In(i) = {}

\* A match request answered with an event at exactly max_distance and
\* without an event that is farther away.
C7_Witness ==
    \E p \in Procs :
       /\ proc[p].pc = "done" /\ proc[p].op = "match" /\ proc[p].ret[1].status = 200
       /\ \E i, j \in 1..Len(proc[p].seen) :
             /\ proc[p].seen[i].distance = proc[p].req[1].max_distance
             /\ proc[p].seen[j].distance > proc[p].req[1].max_distance
       /\ Len(proc[p].ret[1].body) < Len(events_table)
       /\ Len(proc[p].ret[1].body) > 0

\* C8: the list a match request answers with is in descending order of
\* match_score, and results of equal match_score are in the order of their
\* events in the events table.
C8_OrderedByScoreStable ==
    \A p \in Procs :
       (proc[p].pc = "done" /\ proc[p].op = "match" /\ proc[p].ret[1].status = 200)
       => LET body == proc[p].ret[1].body IN
          \A i, j \in 1..Len(body) :
             i < j => \/ body[i].match_score > body[j].match_score
                      \/ /\ body[i].match_score = body[j].match_score
                         /\ Pos(body[i].event_id) < Pos(body[j].event_id)

\* A list of three in which the sort moved an event forward and two results
\* have the same score.
C8_Witness ==
    \E p \in Procs :
       /\ proc[p].pc = "done" /\ proc[p].op = "match" /\ proc[p].ret[1].status = 200
       /\ LET body == proc[p].ret[1].body IN
          /\ Len(body) = 3
          /\ \E i, j \in 1..3 :
                i < j /\ body[i].match_score = body[j].match_score
          /\ \E i, j \in 1..3 :
                i < j /\ Pos(body[i].event_id) > Pos(body[j].event_id)

\* C6: one run of batch_match_volunteers makes no more provider requests than
\* there were (volunteer, event) pairs without a live cache entry when it
\* started.
C6_BatchExploitsCache ==
    \A p \in Procs :
       (proc[p].pc = "done" /\ proc[p].op = "batch")
       => proc[p].ncalls <= proc[p].lacking

\* C11: calculate_distance of the match route never raises: when the provider
\* request fails (a network error, a response that does not parse, a status
\* that is not OK) the distance is the fallback of 15.0 miles, and the match
\* request is answered 200, not with an error.
C11_ProviderFailureFallsBack ==
    \A p \in Procs :
       (proc[p].pc = "done" /\ proc[p].op = "match"
        /\ \E i \in 1..Len(proc[p].outs) : proc[p].outs[i] \in ProviderFailures)
       => /\ proc[p].ret[1].status = 200
          /\ Len(proc[p].seen) = Len(proc[p].outs)
          /\ \A i \in 1..Len(proc[p].outs) :
                proc[p].outs[i] \in ProviderFailures
                => proc[p].seen[i].distance = FallbackMiles

\* A match request during which the provider failed in each of the three
\* ways, answered with the events at the fallback distance.
C11_Witness ==
    \E p \in Procs :
       /\ proc[p].pc = "done" /\ proc[p].op = "match"
       /\ ProviderFailures \subseteq SetOf(proc[p].outs)
       /\ proc[p].ret[1].status = 200
       /\ Len(proc[p].ret[1].body) = 3
       /\ \A j \in 1..3 : proc[p].ret[1].body[j].distance_miles = FallbackMiles

\* C12: cleanup_expired_cache(hours) deletes exactly the entries that were
\* older than `hours` when it was called, leaves every other entry as it was,
\* and returns the number of entries it deleted.  (A sweep on which the store
\* raised cannot have deleted every such entry; it is held to the rest: it
\* deleted no other entry and returns the number it deleted.)
C12_CleanupExact ==
    [][\A p \in Procs :
         (proc[p].op = "cleanup" /\ proc[p].pc \in {"cl_scan", "cl_del"}
          /\ proc'[p].pc = "done")
         => LET c == proc[p].call[1]
                rows == Storage("distance_cache", c.rows)
                left == Storage("distance_cache", distance_cache')
                old == {r \in rows : c.at - r.calculated_at > c.hours}
            IN /\ proc'[p].fault # "raise" => left = rows \ old
               /\ left \subseteq rows
               /\ (rows \ left) \subseteq old
               /\ proc'[p].ret = Some(Cardinality(rows \ left))]_vars

\* C13 as stated: when get_cached_distance finds an expired entry of the pair
\* it returns a miss and, once it has returned, the store holds no entry of
\* the pair.
C13_ExpiredRowDeleted ==
    [][\A p \in Procs :
         (proc[p].pc = "cc_evict" /\ proc[p].op = "get" /\ proc'[p] # proc[p])
         => /\ proc'[p].pc = "done"
            /\ proc'[p].ret = None
            /\ SelectPair(distance_cache', proc[p].user, proc[p].event) = {}]_vars

\* C13, amended: when get_cached_distance finds an expired entry of the pair
\* it returns a miss (inside calculate_and_cache_distance the call goes on as
\* after a miss); if the store performs the delete, no entry of the pair is
\* left and the other pairs' entries are as before; if the delete raises,
\* the failure is swallowed and the table is as it was.
C13_ExpiredEvicted ==
    [][\A p \in Procs :
         (proc[p].pc = "cc_evict" /\ proc'[p] # proc[p])
         => /\ proc[p].op = "get" => (proc'[p].pc = "done" /\ proc'[p].ret = None)
            /\ proc[p].op # "get" => (proc'[p].pc = "cc_profile" /\ proc'[p].ret = None)
            /\ proc'[p].fault # "raise"
               => /\ SelectPair(distance_cache', proc[p].user, proc[p].event) = {}
                  /\ \A r \in distance_cache :
                        ~MatchesPair(r, proc[p].user, proc[p].event)
                        => r \in distance_cache'
                  /\ distance_cache' \subseteq distance_cache
            /\ proc'[p].fault = "raise" => distance_cache' = distance_cache]_vars

\* A lookup that followed a save of the pair more than 24 hours later: it
\* answered None and the row the save wrote is gone, the other pair's row
\* is still there.
C13_Witness ==
    \E p \in Procs :
       /\ proc[p].pc = "done" /\ proc[p].op = "get" /\ proc[p].ret = None
       /\ proc[p].fault = "none"
       /\ proc[p].prev # None
       /\ proc[p].prev[1].fault = "none"
       /\ now - proc[p].prev[1].at > TTL_HOURS
       /\ SelectPair(distance_cache, proc[p].user, proc[p].event) = {}
       /\ distance_cache # {}

\* C14: without a provider key (or with the key "mock_key") calculate_distance
\* makes no provider request, yields a distance between 1 and 25 miles, and
\* yields the same distance whenever it is called with the same origin and
\* destination: a match request of a user meets the distances the user's
\* earlier match request met for the same events.
C14_FallbackDeterministic ==
    \A p \in Procs :
       (proc[p].pc = "done" /\ proc[p].op = "match" /\ ~UsesProvider
        /\ proc[p].ret[1].status = 200)
       => /\ proc[p].ncalls = 0
          /\ \A i \in 1..Len(proc[p].seen) :
                proc[p].seen[i].distance >= 10 /\ proc[p].seen[i].distance <= 250
          /\ (proc[p].prev # None /\ proc[p].prev[1].user_id = proc[p].req[1].user_id)
             => /\ Len(proc[p].prev[1].seen) = Len(proc[p].seen)
                /\ \A i \in 1..Len(proc[p].seen) :
                      proc[p].seen[i] = proc[p].prev[1].seen[i]

\* The addresses that differ from the given one in the case of letters only.
CaseVariants(text) ==
    { t \in [1..Len(text) -> Chars] :
        \A i \in 1..Len(text) :
           t[i] = text[i] \/ {t[i], text[i]} = {"a", "A"} }

\* The addresses that differ from the given one in the case of its letters
\* or by one more blank in front or behind.
Variants(text) ==
    CaseVariants(text) \cup {<<" ">> \o text, text \o <<" ">>}

\* The key of a pair is the key of every pair that differs from it in case
\* and outer blanks only.
KeyInvariant(a, b, key) ==
    /\ \A a2 \in Variants(a) : generate_cache_key(a2, b) = key
    /\ \A b2 \in Variants(b) : generate_cache_key(a, b2) = key

\* C15 as stated: the key of (A, B) differs from the key of (B, A) for every
\* two addresses A # B, and it is the same under a change of letter case and
\* of leading and trailing blanks of each address.
C15_KeyOrderSensitive ==
    \A p \in Procs :
       (proc[p].pc = "done" /\ proc[p].op = "generate_cache_key")
       => LET a == proc[p].req[1].origin_address
              b == proc[p].req[1].destination_address
              key == proc[p].ret[1].value
          IN /\ a # b => generate_cache_key(b, a) # key
             /\ KeyInvariant(a, b, key)

\* C15, amended: the key is the same under a change of letter case and of
\* leading and trailing blanks of each address; the key of (A, B) differs
\* from the key of (B, A) whenever A and B are still different once
\* lowercased and stripped and neither contains the separator "|".
C15_KeyOrderSensitiveNormalized ==
    \A p \in Procs :
       (proc[p].pc = "done" /\ proc[p].op = "generate_cache_key")
       => LET a == proc[p].req[1].origin_address
              b == proc[p].req[1].destination_address
              key == proc[p].ret[1].value
              HasBar(t) == \E i \in 1..Len(t) : t[i] = "|"
          IN /\ (strip(str_lower(a)) # strip(str_lower(b)) /\ ~HasBar(a) /\ ~HasBar(b))
                => generate_cache_key(b, a) # key
             /\ KeyInvariant(a, b, key)

\* The key of " A" and "b " was taken: that of "a" and "b", and not that
\* of the pair the other way round.
C15_Witness ==
    \E p \in Procs :
       /\ proc[p].pc = "done" /\ proc[p].op = "generate_cache_key"
       /\ proc[p].req[1].origin_address = <<" ", "A">>
       /\ proc[p].req[1].destination_address = <<"b", " ">>
       /\ proc[p].ret[1].value = generate_cache_key(<<"a">>, <<"b">>)
       /\ proc[p].ret[1].value # generate_cache_key(<<"b">>, <<"a">>)

\* Two skill names that are one skill when case is ignored.
SameSkill(x, y) == x = y \/ {x, y} = {"Teaching", "teaching"}

\* The distinct skills of a list, case ignored: each as the set of its names
\* in the list.
DistinctSkills(skills) ==
    { {y \in SetOf(skills) : SameSkill(x, y)} : x \in SetOf(skills) }

\* C16: calculate_skill_match returns a value from 0 to 100; it is 100 times
\* the number of distinct required skills the user has (case ignored) over
\* the number of distinct required skills, and exactly 0 when no skill is
\* required.
C16_SkillMatchBounds ==
    \A p \in Procs :
       (proc[p].pc = "done" /\ proc[p].op = "calculate_skill_match")
       => LET user_skills == proc[p].req[1].user_skills
              event_skills == proc[p].req[1].event_skills
              v == proc[p].ret[1].value
              required == DistinctSkills(event_skills)
              common == {c \in required :
                           \E y \in c, u \in SetOf(user_skills) : SameSkill(u, y)}
          IN /\ proc[p].ret[1].raised = ""
             /\ v.den > 0
             /\ 0 <= v.num /\ v.num <= 100 * v.den
             /\ event_skills = <<>> => v.num = 0
             /\ event_skills # <<>>
                => v.num * Cardinality(required) = 100 * Cardinality(common) * v.den

\* The user has the one skill an event requires under two spellings, next to
\* another skill: the match is 100.
C16_Witness ==
    \E p \in Procs :
       /\ proc[p].pc = "done" /\ proc[p].op = "calculate_skill_match"
       /\ proc[p].req[1].user_skills = <<"Teaching", "First Aid">>
       /\ proc[p].req[1].event_skills = <<"teaching", "Teaching">>
       /\ proc[p].ret[1].value.num = 100 * proc[p].ret[1].value.den

\* C17: calculate_urgency_score returns 1.0 for high, 0.6 for medium and 0.3
\* for low in any letter case, and 0.0 for every other input, the empty
\* text and None included; it never raises.  (Scores in tenths.)
C17_UrgencyScoreTotal ==
    \A p \in Procs :
       (proc[p].pc = "done" /\ proc[p].op = "calculate_urgency_score")
       => LET urgency == proc[p].req[1].urgency IN
          /\ proc[p].ret[1].raised = ""
          /\ proc[p].ret[1].value =
                CASE urgency \in {Some("high"), Some("HIGH"), Some("High")} -> 10
                  [] urgency \in {Some("medium"), Some("MEDIUM"), Some("Medium")} -> 6
                  [] urgency \in {Some("low"), Some("LOW"), Some("Low")} -> 3
                  [] OTHER -> 0

\* C18: calculate_match_score is (skill_match/100 * skill_weight
\* + max(0, 1 - distance/50) * distance_weight + urgency_score * urgency_weight)
\* * 100 rounded to two decimals, the weights taken as they are and the result
\* not capped at 100: the score, in hundredths, is an integer nearest to that
\* value; (100, 5, high, 0.5, 0.2, 0.3) gives 98.0 and (20, 45, low, 0.5, 0.2,
\* 0.3) gives 21.0.
C18_ScoreFormula ==
    \A p \in Procs :
       (proc[p].pc = "done" /\ proc[p].op = "calculate_match_score")
       => LET a == proc[p].req[1]
              score == proc[p].ret[1].value
              \* the three terms over the common denominator 5 * den
              den == 5 * a.skill_match.den
              skill_term == 5 * a.skill_match.num * a.skill_weight
              distance_term == IF a.distance >= 500 THEN 0
                               ELSE a.skill_match.den * (500 - a.distance) * a.distance_weight
              urgency_term == 50 * a.skill_match.den * a.urgency_weight
                              * (CASE a.urgency = "high" -> 10
                                   [] a.urgency = "medium" -> 6
                                   [] a.urgency = "low" -> 3
                                   [] OTHER -> 0)
              exact == skill_term + distance_term + urgency_term
              example1 == [skill_match |-> [num |-> 100, den |-> 1], distance |-> 50,
                           urgency |-> "high", skill_weight |-> 50,
                           distance_weight |-> 20, urgency_weight |-> 30]
              example2 == [skill_match |-> [num |-> 20, den |-> 1], distance |-> 450,
                           urgency |-> "low", skill_weight |-> 50,
                           distance_weight |-> 20, urgency_weight |-> 30]
          IN /\ proc[p].ret[1].raised = ""
             /\ 2 * (score * den - exact) <= den
             /\ 2 * (exact - score * den) <= den
             /\ a = example1 => score = 9800
             /\ a = example2 => score = 2100

\* A score above 100: 200.0 for a full skill match weighted 2.0 at the far
\* end of the distance scale.
C18_Witness ==
    \E p \in Procs :
       /\ proc[p].pc = "done" /\ proc[p].op = "calculate_match_score"
       /\ proc[p].req[1].skill_match = [num |-> 100, den |-> 1]
       /\ proc[p].req[1].skill_weight = 200
       /\ proc[p].req[1].distance = 500
       /\ proc[p].req[1].urgency = "unknown"
       /\ proc[p].ret[1].value = 20000

\* C19: of the requests that miss the cache for the same (user, event) at
\* the same time, at most one calls the provider; the others take its
\* result.  No two calculations in progress for one pair each hold the
\* result of a provider call of their own.
C19_SingleFlight ==
    \A u \in Users, e \in EventIds :
       Cardinality({p \in Procs : /\ proc[p].op = "calc"
                                  /\ proc[p].pc \in {"cc_save", "cc_upsert", "cc_return"}
                                  /\ proc[p].user = u /\ proc[p].event = e}) <= 1

\* C20: a match request with a negative weight is rejected before any
\* scoring takes place: its answer carries no match scored with the
\* negative weight.
C20_NegativeWeightsRejected ==
    \A p \in Procs :
       (proc[p].pc = "done" /\ proc[p].op = "match"
        /\ \/ proc[p].req[1].urgency_weight < 0
           \/ proc[p].req[1].skill_weight < 0
           \/ proc[p].req[1].distance_weight < 0)
       => proc[p].ret[1].body = <<>>

\* C21: POST /match answers 403 "Not authorized" to a caller who is neither
\* the requested user nor an admin, and 404 "User profile not found" when the
\* requested user has no profile; neither is turned into another error.
C21_AuthAndProfileErrors ==
    \A p \in Procs :
       (proc[p].pc = "done" /\ proc[p].op = "match") =>
          LET req == proc[p].req[1]
              ret == proc[p].ret[1]
              authorized == proc[p].user = req.user_id \/ proc[p].user = "admin"
          IN /\ ~authorized => ret.status = 403
             /\ (authorized /\ ProfileOf(req.user_id) = <<>> /\ ret.detail # "store")
                   => ret.status = 404

\* C22: the notifications table holds at most one notification created by
\* match_and_notify for each (user_id, event_id), however the calls of
\* match_and_notify follow each other or interleave.
C22_OneNotificationPerPair ==
    \A u \in Users, e \in EventIds :
       LET Created(r) == /\ r.user_id = u /\ r.event_id = e
                         /\ r.message = notification_row(u, [id |-> e]).message
       IN Len(SelectSeq(notifications, Created)) <= 1

\* C23: get_cached_distance reports a miss only when the pair has no entry
\* or the entry's age exceeds 24 hours (an entry aged 24 hours or less is
\* returned), and get_cached_distance and cleanup_expired_cache(24) take the
\* same entries for expired.
C23_MissOnlyPastTTL ==
    [][ /\ \A r \in Storage("distance_cache", distance_cache) :
              IsFresh(r, now) <=> ~IsExpiredAt(r, now - TTL_HOURS)
        /\ \A p \in Procs :
              /\ (/\ proc[p].op = "get" /\ proc[p].pc = "cc_get"
                  /\ proc'[p].pc = "done" /\ proc'[p].ret = None
                  /\ proc'[p].fault = "none")
                 => SelectPair(Storage("distance_cache", distance_cache),
                               proc[p].user, proc[p].event) = {}
              /\ (/\ proc[p].op = "get" /\ proc[p].pc = "cc_fresh"
                  /\ proc'[p].pc = "cc_evict")
                 => now - proc[p].row[1].calculated_at > TTL_HOURS ]_vars

\* C24: for a negative distance the distance component of
\* calculate_match_score is clamped to 1.0: the score is the score of the
\* same arguments at distance 0.
C24_NegativeDistanceClamped ==
    \A p \in Procs :
       (/\ proc[p].pc = "done" /\ proc[p].op = "calculate_match_score"
        /\ proc[p].req[1].distance < 0)
       => LET a == proc[p].req[1] IN
          proc[p].ret = Returned(calculate_match_score(a.skill_match, 0, a.urgency,
                                    a.skill_weight, a.distance_weight, a.urgency_weight))

\* C25: every result of match_volunteer_to_events carries the reason "High
\* priority event" exactly when the urgency of its event is high, whatever
\* the case it is spelled in, "Strong skill match" exactly when the skill
\* match is above 50, and "Close location" exactly when the distance is under
\* 10 miles.
C25_ReasonsMatchFacts ==
    \A p \in Procs :
       (proc[p].pc = "done" /\ proc[p].op = "match" /\ proc[p].ret[1].status = 200)
       => \A i \in 1..Len(proc[p].ret[1].body) :
             LET m == proc[p].ret[1].body[i]
                 reasons == SetOf(m.reasons)
             IN /\ "High priority event" \in reasons <=> Lower(m.urgency_level) = "high"
                /\ "Strong skill match" \in reasons
                      <=> m.skill_match_percentage.num > 50 * m.skill_match_percentage.den
                /\ "Close location" \in reasons <=> m.distance_miles < 100

\* C26: every provider request of a match request is bounded by a timeout
\* that counts as a failed resolution: a match request waiting for the
\* provider eventually completes, even if the provider never answers.
C26_MatchCompletes ==
    \A p \in Procs : (proc[p].pc = "m_wait") ~> (proc[p].pc = "done")

\* C27: once a volunteer's address has been changed through
\* create_or_update_profile, calculate_and_cache_distance never answers with
\* a cached distance computed from the previous address: the entry behind a
\* cache hit was computed from the address the profile holds.
C27_AddressChangeInvalidates ==
    [][ \A p \in Procs :
           (/\ proc[p].op = "calc" /\ proc[p].pc = "cc_fresh"
            /\ proc'[p].pc = "done" /\ proc'[p].ret # None)
           => (proc'[p].ret[1].cached
                 => proc[p].row[1].origin_address = user_address(proc[p].user)) ]_vars

\* C28: save_distance_calculation for a pair leaves the cache entries of
\* every other pair as they are: none is overwritten, removed or added, an
\* entry of the same user for another event included.
C28_SaveFrame ==
    [][ \A p \in Procs :
           (proc[p].pc \in {"cc_save", "cc_upsert"} /\ proc'[p] # proc[p])
           => LET Other(r) == ~MatchesPair(r, proc[p].user, proc[p].event) IN
              {r \in distance_cache' : Other(r)} = {r \in distance_cache : Other(r)} ]_vars

\* A save for (u1, e2) succeeded while the store held an earlier entry for
\* (u1, e1), which is still there.
C28_Witness ==
    \E p \in Procs :
       /\ proc[p].pc = "done" /\ proc[p].op = "save"
       /\ proc[p].user = "u1" /\ proc[p].event = "e2" /\ proc[p].ret = Some(TRUE)
       /\ \E r1 \in SelectPair(distance_cache, "u1", "e1"),
             r2 \in SelectPair(distance_cache, "u1", "e2") :
             r1.calculated_at < r2.calculated_at

\* C29: the lazy eviction of get_cached_distance never removes a live
\* entry: an entry that is not expired when the delete is issued, such as one
\* a save wrote after the expired row was read, is still in the store
\* afterwards.
C29_EvictionKeepsLive ==
    [][ \A p \in Procs :
           (proc[p].pc = "cc_evict" /\ proc'[p].pc # "cc_evict")
           => \A r \in distance_cache : IsFresh(r, now) => r \in distance_cache' ]_vars

\* C30: cleanup_expired_cache never deletes an entry that is not expired at
\* the moment of the deletion: an entry that is within the age threshold
\* then, whichever threshold the sweep was called with (one refreshed by a
\* save after the sweep read it, say), is still in the store after the
\* sweep's turn.
C30_SweepKeepsLive ==
    [][ \A p \in Procs :
           (proc[p].pc = "cl_del" /\ proc'[p] # proc[p])
           => \A r \in distance_cache :
                 (\A hours \in CleanupHours : ~IsExpiredAt(r, now - hours))
                 => r \in distance_cache' ]_vars

====
